---- MODULE Spec2Model ----
(***************************************************************************)
(* Model of the rtc_sync_pi firmware (Raspberry Pi Pico W sketch):         *)
(*   - the credential store on the 24C32 EEPROM (pages 0..2),               *)
(*   - the NTP fetch (get_ntp_time / send_ntp_packet),                      *)
(*   - the sync orchestrator (rtc_and_ntp_sync),                            *)
(*   - the serial command loop (setup / loop).                              *)
(* Two builds of the sketch are in the repository: the `e2p w` command      *)
(* build (src/unnamed/part_001, lines 1..421) and the prompt-driven build   *)
(* (src/rtc_sync_pi.ino).  Bytes are integers 0..255, strings are           *)
(* sequences of non-zero bytes, memory is a function from addresses.        *)
(***************************************************************************)
EXTENDS Integers, Sequences, FiniteSets, TLC

\* ------------------------------------------------------------------------
\* Program constants
E2P_PAGE_BYTE_SIZE == 32
E2P_WIFI_CONFIG_MAKER_LEN == 30
NTP_PACKET_SIZE == 48
NTP_TIMEOUT_MS == 5000
WIFI_CONNECT_TIMEOUT_MS == 30000
WIFI_POLL_DELAY_MS == 100

\* Bounds of the model
MaxStrLen == 40

Min(a, b) == IF a < b THEN a ELSE b

\* n copies of byte c
Rep(c, n) == [i \in 1..n |-> c]

\* the first n elements of s (all of s when it is shorter)
Take(s, n) == SubSeq(s, 1, Min(n, Len(s)))

\* p_e2p_wifi_config_maker = "WIFI_CONFIG_SSID_AND_PASSWORD": the 29
\* characters and the terminating NUL of the string literal (30 bytes).
p_e2p_wifi_config_maker ==
  << 87, 73, 70, 73, 95, 67, 79, 78, 70, 73, 71, 95, 83, 83, 73, 68, 95,
     65, 78, 68, 95, 80, 65, 83, 83, 87, 79, 82, 68, 0 >>

\* The EEPROM addresses of pages 0..2
E2pAddrs == 0..(3 * E2P_PAGE_BYTE_SIZE - 1)

\* A page buffer `uint8_t tmp_page[32] = {0}`
ZeroPage == Rep(0, E2P_PAGE_BYTE_SIZE)

\* The content of page pageNo of memory mem, as a 32-byte sequence
PageOf(mem, pageNo) ==
  [i \in 1..E2P_PAGE_BYTE_SIZE |-> mem[pageNo * E2P_PAGE_BYTE_SIZE + i - 1]]

\* memcpy(dst, src, n): the first n bytes of dst replaced by those of src
memcpy(dst, src, n) ==
  [i \in 1..Len(dst) |-> IF i <= n THEN src[i] ELSE dst[i]]

\* memcmp(a, b, n) != 0
memcmp_differs(a, b, n) == \E i \in 1..n : a[i] # b[i]

\* String((const char *)buf): the bytes before the first NUL
\* the least element of a non-empty set of integers
Least(S) == CHOOSE i \in S : \A j \in S : i <= j

\* the greatest element of a non-empty set of integers
Greatest(S) == CHOOSE i \in S : \A j \in S : i >= j

CStr(buf) ==
  LET nul == {i \in 1..Len(buf) : buf[i] = 0}
  IN IF nul = {} THEN buf ELSE SubSeq(buf, 1, Least(nul) - 1)

\* ------------------------------------------------------------------------
\* uint32_t values.  A value is kept as its two 16-bit halves [hi, lo], so
\* that the arithmetic wraps at 2^32 as the code's does.

Half == 256 * 256

\* the uint32_t with value n, for 0 <= n < 2^31
U32(n) == [hi |-> n \div Half, lo |-> n % Half]

\* a + b as uint32_t
Add32(a, b) ==
  LET lo == a.lo + b.lo
  IN [hi |-> (a.hi + b.hi + lo \div Half) % Half, lo |-> lo % Half]

\* a - b as uint32_t
Sub32(a, b) ==
  LET lo == a.lo - b.lo
      borrow == IF lo < 0 THEN 1 ELSE 0
  IN [hi |-> (a.hi - b.hi - borrow + Half) % Half, lo |-> (lo + Half) % Half]

\* a < b on uint32_t
Lt32(a, b) == a.hi < b.hi \/ (a.hi = b.hi /\ a.lo < b.lo)

\* the big-endian uint32_t of four bytes:
\* (b0 << 24) | (b1 << 16) | (b2 << 8) | b3
BigEndian32(b0, b1, b2, b3) == [hi |-> b0 * 256 + b1, lo |-> b2 * 256 + b3]

\* SEC_1970_TO_1900 = 2208988800UL = 0x83AA7E80
SEC_1970_TO_1900 == BigEndian32(131, 170, 126, 128)

\* JST_UTC_OFFSET_SEC = 9 * 3600
JST_UTC_OFFSET_SEC == U32(9 * 3600)

\* ------------------------------------------------------------------------
\* Arduino String operations on sequences of characters (0-based indices)

\* isspace(c): space, \t, \n, \v, \f, \r
isspace(c) == c = 32 \/ (c >= 9 /\ c <= 13)

\* tolower(c)
tolower(c) == IF c >= 65 /\ c <= 90 THEN c + 32 ELSE c

\* String::trim(): leading and trailing whitespace removed
trim(str) ==
  LET kept == {i \in 1..Len(str) : ~isspace(str[i])}
  IN IF kept = {} THEN <<>> ELSE SubSeq(str, Least(kept), Greatest(kept))

\* String::equalsIgnoreCase(other)
equalsIgnoreCase(str, other) ==
  /\ Len(str) = Len(other)
  /\ \A i \in 1..Len(str) : tolower(str[i]) = tolower(other[i])

\* String::indexOf(ch, fromIndex): -1 when there is none
indexOf(str, ch, fromIndex) ==
  LET found == {i \in fromIndex..(Len(str) - 1) : str[i + 1] = ch}
  IN IF found = {} THEN -1 ELSE Least(found)

\* String::substring(left, right): the characters left..right-1
substring(str, left, right) ==
  LET l == IF left > right THEN right ELSE left
      r0 == IF left > right THEN left ELSE right
      r == IF r0 > Len(str) THEN Len(str) ELSE r0
  IN IF l >= Len(str) THEN <<>> ELSE SubSeq(str, l + 1, r)

\* ------------------------------------------------------------------------
\* EEPROM byte and page primitives.
\*
\* acks: how many further byte-write transmissions the device acknowledges
\* (Wire.endTransmission() == 0) before one is not acknowledged.

\* mutant: the loop goes on after a transmission that was not acknowledged
e2p_write_byte_no_abort(mem, memAddr, data, len, acks) ==
  [ mem  |-> [a \in DOMAIN mem |->
                IF a >= memAddr /\ a < memAddr + len /\ a - memAddr # acks
                  THEN data[a - memAddr + 1] ELSE mem[a]],
    ok   |-> acks >= len,
    acks |-> IF acks >= len THEN acks - len ELSE 0 ]

\* e2p_write_byte: one transmission per byte, ascending addresses, return
\* false at the first transmission that is not acknowledged.
\* Result: the memory, the return value and the acknowledgements left.
e2p_write_byte(mem, memAddr, data, len, acks) ==
  LET n == Min(len, acks)   \* bytes stored before the loop ends
  IN [ mem  |-> [a \in DOMAIN mem |->
                   IF a >= memAddr /\ a < memAddr + n
                     THEN data[a - memAddr + 1] ELSE mem[a]],
       ok   |-> acks >= len,
       acks |-> acks - n ]

e2p_write_page(mem, pageNo, buf32, acks) ==
  e2p_write_byte(mem, pageNo * E2P_PAGE_BYTE_SIZE, buf32, E2P_PAGE_BYTE_SIZE, acks)

\* rd: the outcome of one read transaction: whether the address phase is
\* acknowledged and how many bytes Wire.available() then delivers.
e2p_read_byte(mem, memAddr, buf, len, rd) ==
  IF ~rd.ack THEN [buf |-> buf, ok |-> FALSE]
  ELSE LET got == Min(rd.avail, len)
       IN [ buf |-> [i \in 1..Len(buf) |->
                       IF i <= got THEN mem[memAddr + i - 1] ELSE buf[i]],
            ok  |-> got = len ]

e2p_read_page(mem, pageNo, buf32, rd) ==
  e2p_read_byte(mem, pageNo * E2P_PAGE_BYTE_SIZE, buf32, E2P_PAGE_BYTE_SIZE, rd)

\* ------------------------------------------------------------------------
\* Credential store

\* mutant: the pages are filled without the 31-byte limit
save_wifi_config_no_limit(mem, ssid, password, oob, acks) ==
  LET r0 == e2p_write_page(mem, 0, p_e2p_wifi_config_maker \o oob, acks)
      r1 == e2p_write_page(r0.mem, 1,
               memcpy(ZeroPage, ssid, Min(E2P_PAGE_BYTE_SIZE, Len(ssid))), r0.acks)
      r2 == e2p_write_page(r1.mem, 2,
               memcpy(ZeroPage, password, Min(E2P_PAGE_BYTE_SIZE, Len(password))), r1.acks)
  IN IF ~r0.ok THEN [mem |-> r0.mem, ok |-> FALSE]
     ELSE IF ~r1.ok THEN [mem |-> r1.mem, ok |-> FALSE]
     ELSE [mem |-> r2.mem, ok |-> r2.ok]

\* mutant: the passphrase goes to page 1 and the identifier to page 2
save_wifi_config_swapped(mem, ssid, password, oob, acks) ==
  LET r0 == e2p_write_page(mem, 0, p_e2p_wifi_config_maker \o oob, acks)
      r1 == e2p_write_page(r0.mem, 1,
               memcpy(ZeroPage, password, Min(31, Len(password))), r0.acks)
      r2 == e2p_write_page(r1.mem, 2,
               memcpy(ZeroPage, ssid, Min(31, Len(ssid))), r1.acks)
  IN IF ~r0.ok THEN [mem |-> r0.mem, ok |-> FALSE]
     ELSE IF ~r1.ok THEN [mem |-> r1.mem, ok |-> FALSE]
     ELSE [mem |-> r2.mem, ok |-> r2.ok]

\* e2p_save_wifi_config(ssid, password).
\* oob: the two bytes that follow the 30-byte marker literal in memory;
\* e2p_write_page(0, marker) reads 32 bytes from it, so bytes 30 and 31 of
\* page 0 come from beyond the literal.
\* Result: the memory and the return value.
e2p_save_wifi_config(mem, ssid, password, oob, acks) ==
  LET r0 == e2p_write_page(mem, 0, p_e2p_wifi_config_maker \o oob, acks)
      slen == Min(31, Len(ssid))
      r1 == e2p_write_page(r0.mem, 1, memcpy(ZeroPage, ssid, slen), r0.acks)
      plen == Min(31, Len(password))
      r2 == e2p_write_page(r1.mem, 2, memcpy(ZeroPage, password, plen), r1.acks)
  IN IF ~r0.ok THEN [mem |-> r0.mem, ok |-> FALSE]
     ELSE IF ~r1.ok THEN [mem |-> r1.mem, ok |-> FALSE]
     ELSE [mem |-> r2.mem, ok |-> r2.ok]

\* mutant: the marker check compares only the first 4 bytes
check_wifi_config_short_cmp(mem, ssid, password, rd) ==
  LET r0 == e2p_read_page(mem, 0, ZeroPage, rd[1])
      marker == r0.ok /\ ~memcmp_differs(r0.buf, p_e2p_wifi_config_maker, 4)
      r1 == e2p_read_page(mem, 1, ZeroPage, rd[2])
      id == CStr([r1.buf EXCEPT ![E2P_PAGE_BYTE_SIZE] = 0])
      r2 == e2p_read_page(mem, 2, ZeroPage, rd[3])
      pw == CStr([r2.buf EXCEPT ![E2P_PAGE_BYTE_SIZE] = 0])
  IN IF ~marker THEN [ret |-> FALSE, ssid |-> ssid, password |-> password, marker |-> FALSE]
     ELSE IF ~r1.ok THEN [ret |-> FALSE, ssid |-> ssid, password |-> password, marker |-> TRUE]
     ELSE IF ~r2.ok THEN [ret |-> FALSE, ssid |-> id, password |-> password, marker |-> TRUE]
     ELSE [ret |-> TRUE, ssid |-> id, password |-> pw, marker |-> TRUE]

\* mutant: the three pages are read first and the marker is compared last
check_wifi_config_late_marker(mem, ssid, password, rd) ==
  LET r0 == e2p_read_page(mem, 0, ZeroPage, rd[1])
      r1 == e2p_read_page(mem, 1, ZeroPage, rd[2])
      id == CStr([r1.buf EXCEPT ![E2P_PAGE_BYTE_SIZE] = 0])
      r2 == e2p_read_page(mem, 2, ZeroPage, rd[3])
      pw == CStr([r2.buf EXCEPT ![E2P_PAGE_BYTE_SIZE] = 0])
      marker == r0.ok /\ r1.ok /\ r2.ok /\
                ~memcmp_differs(r0.buf, p_e2p_wifi_config_maker, E2P_WIFI_CONFIG_MAKER_LEN)
  IN IF ~marker THEN [ret |-> FALSE, ssid |-> ssid, password |-> password, marker |-> FALSE]
     ELSE [ret |-> TRUE, ssid |-> id, password |-> pw, marker |-> TRUE]

\* e2p_check_wifi_config(ssid, password); ssid and password are the values
\* the caller's variables hold before the call, rd the outcomes of the three
\* page reads.  Result: the return value, the caller's variables after the
\* call, and `marker`: whether the marker check (lines 144..148) passed.
e2p_check_wifi_config(mem, ssid, password, rd) ==
  LET r0 == e2p_read_page(mem, 0, ZeroPage, rd[1])
      marker == r0.ok /\
                ~memcmp_differs(r0.buf, p_e2p_wifi_config_maker, E2P_WIFI_CONFIG_MAKER_LEN)
      r1 == e2p_read_page(mem, 1, ZeroPage, rd[2])
      id == CStr([r1.buf EXCEPT ![E2P_PAGE_BYTE_SIZE] = 0])
      r2 == e2p_read_page(mem, 2, ZeroPage, rd[3])
      pw == CStr([r2.buf EXCEPT ![E2P_PAGE_BYTE_SIZE] = 0])
  IN IF ~marker THEN [ret |-> FALSE, ssid |-> ssid, password |-> password, marker |-> FALSE]
     ELSE IF ~r1.ok THEN [ret |-> FALSE, ssid |-> ssid, password |-> password, marker |-> TRUE]
     ELSE IF ~r2.ok THEN [ret |-> FALSE, ssid |-> id, password |-> password, marker |-> TRUE]
     ELSE [ret |-> TRUE, ssid |-> id, password |-> pw, marker |-> TRUE]

\* ------------------------------------------------------------------------
\* State

VARIABLES
  \* the credential store and the calls made to it
  eeprom,      \* the 24C32: address -> byte, pages 0..2
  marker_oob,  \* the two bytes that follow the marker literal in this build
  in_ssid,     \* the identifier the caller passes to e2p_save_wifi_config
  in_password, \* the passphrase the caller passes
  call,        \* the last credential-store call and its results
  prev,        \* the store call before it: function, return value, page-0 read
  saved,       \* the <<ssid, password>> pairs of the calls that returned true
  \* the sketch
  build,       \* "cmd": src/unnamed/part_001 (e2p w command);
               \* "prompt": src/rtc_sync_pi.ino (prompted entry)
  hw,          \* which I2C devices answer: [e2p, rtc]
  pc,          \* where the single thread is
  script,      \* the chunks the user is still to send on the serial line
  nets,        \* the association behaviours the network may show
  rx,          \* characters received on the serial line, not yet read
  s_line,
  e2p_stored_ssid,
  e2p_stored_password,
  s_is_e2p_wifi_config,
  s_is_wifi_config_data,
  s_state,
  s_tmp_ssid,
  s_tmp_pass,
  s_is_enter_request,
  s_await_param,
  out,         \* the last message the command loop printed
  pre,         \* the cached pair and flags when the last line was dispatched
  loaded,      \* what setup()'s e2p_check_wifi_config call returned
  \* one sync
  wifi,        \* WiFi.status(): "idle", "connecting" or "connected"
  millis,      \* millis(), uint32_t
  net,         \* the network during this sync: after how many polls the
               \* association completes (-1: never)
  polls,       \* delay() calls made by the association wait
  wait_time_ms,
  is_wifi_connet_timeout,
  start,       \* get_ntp_time's start
  udp_q,       \* datagrams received on the UDP socket, not yet parsed
  arrived,     \* datagrams that arrived during this fetch
  s_packet_buf,
  epoch,       \* the caller's result variable: [set, v]
  fetch,       \* the last get_ntp_time call: [ret, from]: its return value and
               \* the datagram it decoded
  rtc_time,    \* what the DS3231 holds: [set, v]
  sync_log,    \* WiFi.begin, send, adjust, disconnect events of this sync
  sync_ret,    \* the return value of the last rtc_and_ntp_sync: [set, v]
  nsyncs       \* sync calls started

storeVars == <<eeprom, marker_oob, in_ssid, in_password, call, prev, saved>>

cliVars ==
  << build, hw, pc, script, nets, rx, s_line, e2p_stored_ssid, e2p_stored_password,
     s_is_e2p_wifi_config, s_is_wifi_config_data, s_state, s_tmp_ssid,
     s_tmp_pass, s_is_enter_request, s_await_param, out, pre, loaded >>

syncVars ==
  << wifi, millis, net, polls, wait_time_ms, is_wifi_connet_timeout, start,
     udp_q, arrived, s_packet_buf, epoch, fetch, rtc_time, sync_log, sync_ret,
     nsyncs >>

vars == <<storeVars, cliVars, syncVars>>

\* uint32_t epoch; -- a result variable nobody has written
Unset == [set |-> FALSE, v |-> U32(0)]

NoFetch == [done |-> FALSE, ret |-> FALSE, from |-> <<>>]

\* The cached pair and the two presence flags
Cache(ssid, password, is_e2p, is_data) ==
  [ e2p_stored_ssid |-> ssid, e2p_stored_password |-> password,
    s_is_e2p_wifi_config |-> is_e2p, s_is_wifi_config_data |-> is_data ]

\* The statics as their initialisers leave them
StaticsAtReset ==
  /\ s_line = <<>>
  /\ e2p_stored_ssid = <<>>
  /\ e2p_stored_password = <<>>
  /\ s_is_e2p_wifi_config = FALSE
  /\ s_is_wifi_config_data = FALSE
  /\ s_state = "STATE_IDLE"
  /\ s_tmp_ssid = <<>>
  /\ s_tmp_pass = <<>>
  /\ s_is_enter_request = FALSE
  /\ s_await_param = 0
  /\ s_packet_buf = Rep(0, NTP_PACKET_SIZE)
  /\ out = ""
  /\ pre = Cache(<<>>, <<>>, FALSE, FALSE)
  /\ loaded = [ret |-> FALSE, ssid |-> <<>>, password |-> <<>>]

\* No sync has been started
NoSyncYet ==
  /\ wifi = "idle"
  /\ millis = U32(0)
  /\ net = 0
  /\ polls = 0
  /\ wait_time_ms = U32(0)
  /\ is_wifi_connet_timeout = FALSE
  /\ start = U32(0)
  /\ udp_q = <<>>
  /\ arrived = <<>>
  /\ epoch = Unset
  /\ fetch = NoFetch
  /\ rtc_time = Unset
  /\ sync_log = <<>>
  /\ sync_ret = [set |-> FALSE, v |-> FALSE]
  /\ nsyncs = 0

\* The store functions called on their own: the sketch is not running
SketchOff ==
  /\ build = "cmd"
  /\ hw = [e2p |-> TRUE, rtc |-> TRUE]
  /\ pc = "off"
  /\ script = <<>>
  /\ nets = {}
  /\ rx = <<>>
  /\ StaticsAtReset
  /\ NoSyncYet

\* Outcomes of the out-of-bounds read of the marker literal (bytes 30, 31)
OobSet == { <<0, 0>>, <<37, 115>> }

\* Identifiers and passphrases: 1 byte, 31 bytes (the limit), 32 bytes (the
\* page size) and MaxStrLen bytes; the long ones differ from each other and
\* from their own prefix at bytes 31 and 32.
Name1 == <<97>>
Name31 == Rep(97, 30) \o <<122>>
Name32 == Rep(99, 31) \o <<119>>
NameLong == Rep(98, 30) \o <<120, 121>> \o Rep(98, MaxStrLen - 32)

\* The <<identifier, passphrase>> pairs tried
NamePairs ==
  { <<Name1, Name31>>, <<Name31, Name1>>, <<Name32, NameLong>>, <<NameLong, Name32>> }

\* Outcomes of one page read: complete, address not acknowledged, one byte short
RdOk == [ack |-> TRUE, avail |-> E2P_PAGE_BYTE_SIZE]
RdNak == [ack |-> FALSE, avail |-> 0]
RdShort == [ack |-> TRUE, avail |-> E2P_PAGE_BYTE_SIZE - 1]

\* Outcomes of the three page reads of one e2p_check_wifi_config call
RdSeqs ==
  { <<RdOk, RdOk, RdOk>>, <<RdNak, RdOk, RdOk>>, <<RdShort, RdOk, RdOk>>,
    <<RdOk, RdNak, RdOk>>, <<RdOk, RdOk, RdShort>> }

\* The page image of a string as e2p_save_wifi_config builds it
PageImage(str) == memcpy(ZeroPage, str, Min(31, Len(str)))

\* A memory image from three 32-byte pages
Image(p0, p1, p2) ==
  [a \in E2pAddrs |->
     IF a < E2P_PAGE_BYTE_SIZE THEN p0[a + 1]
     ELSE IF a < 2 * E2P_PAGE_BYTE_SIZE THEN p1[a - E2P_PAGE_BYTE_SIZE + 1]
     ELSE p2[a - 2 * E2P_PAGE_BYTE_SIZE + 1]]

BlankPage == Rep(255, E2P_PAGE_BYTE_SIZE)

\* Page-0 contents a device can hold at power-up: erased, the marker
\* followed by other bytes than this build writes, a proper prefix of the
\* marker, the marker without its NUL, the marker with byte 0 changed.
InitPage0(oob) ==
  { BlankPage,
    p_e2p_wifi_config_maker \o <<255, 255>>,
    memcpy(BlankPage, p_e2p_wifi_config_maker, 10),
    memcpy(BlankPage, p_e2p_wifi_config_maker, 29),
    [p_e2p_wifi_config_maker \o oob EXCEPT ![1] = 119] }

\* Where the device stops acknowledging in the power-up-content runs: the
\* first, second and last byte of each page, or never
AckPoints ==
  { p * E2P_PAGE_BYTE_SIZE + o : p \in 0..2, o \in {0, 1, E2P_PAGE_BYTE_SIZE - 1} }
    \cup { 3 * E2P_PAGE_BYTE_SIZE }

NoCall ==
  [ fn |-> "none", ret |-> FALSE, out_ssid |-> <<>>, out_password |-> <<>>,
    marker |-> FALSE, rd |-> <<>> ]

\* What the next call remembers of call c
PrevOf(c) ==
  [ fn |-> c.fn, ret |-> c.fn = "save" /\ c.ret, marker |-> c.marker,
    rd0 |-> c.fn = "check" /\ c.rd[1] ]

\* Power-up with an erased device
InitFresh ==
  /\ eeprom = Image(BlankPage, BlankPage, BlankPage)
  /\ marker_oob \in OobSet
  /\ \E p \in NamePairs : in_ssid = p[1] /\ in_password = p[2]
  /\ call = NoCall
  /\ prev = PrevOf(NoCall)
  /\ saved = {}
  /\ SketchOff

\* Power-up with any device content: pages 1 and 2 erased or valid-looking
InitStore ==
  /\ marker_oob \in OobSet
  /\ \E p0 \in InitPage0(marker_oob) :
     \E p1 \in {BlankPage, PageImage(Name1)} :
       eeprom = Image(p0, p1, p1)
  /\ \E p \in NamePairs : in_ssid = p[1] /\ in_password = p[2]
  /\ call = NoCall
  /\ prev = PrevOf(NoCall)
  /\ saved = {}
  /\ SketchOff

\* e2p_save_wifi_config(in_ssid, in_password) with the device acknowledging
\* the first acks byte transmissions
Save(acks) ==
  LET r == e2p_save_wifi_config(eeprom, in_ssid, in_password, marker_oob, acks)
  IN /\ eeprom' = r.mem
     /\ call' = [ fn |-> "save", ret |-> r.ok, out_ssid |-> <<>>,
                  out_password |-> <<>>, marker |-> FALSE, rd |-> <<>> ]
     /\ saved' = IF r.ok THEN saved \cup {<<in_ssid, in_password>>} ELSE saved
     /\ prev' = PrevOf(call)
     /\ UNCHANGED <<marker_oob, in_ssid, in_password, cliVars, syncVars>>

\* A call of e2p_save_wifi_config that may fail at any byte
SaveCall == \E acks \in 0..(3 * E2P_PAGE_BYTE_SIZE) : Save(acks)

\* A call of e2p_save_wifi_config that may fail at a page's edge
SaveCallAt == \E acks \in AckPoints : Save(acks)

\* A call of e2p_check_wifi_config(ssid, password) with both of the
\* caller's variables holding "?"
CheckCall ==
  /\ \E rd \in RdSeqs :
       LET r == e2p_check_wifi_config(eeprom, <<63>>, <<63>>, rd)
       IN call' = [ fn |-> "check", ret |-> r.ret, out_ssid |-> r.ssid,
                    out_password |-> r.password, marker |-> r.marker,
                    rd |-> [i \in 1..3 |-> rd[i] = RdOk] ]
  /\ prev' = PrevOf(call)
  /\ UNCHANGED <<eeprom, marker_oob, in_ssid, in_password, saved, cliVars, syncVars>>

NextFresh == SaveCall

NextStore == SaveCallAt \/ CheckCall

\* The credential store from any power-up content
SpecStore == InitStore /\ [][NextStore]_vars

\* The credential store from an erased device, failing at any byte
SpecFresh == InitFresh /\ [][NextFresh]_vars

\* ------------------------------------------------------------------------
\* Claims about the credential store

AllReadsOk == <<TRUE, TRUE, TRUE>>

\* The marker check of e2p_check_wifi_config on memory mem, reads succeeding
MarkerPresent(mem) ==
  e2p_check_wifi_config(mem, <<>>, <<>>, <<RdOk, RdOk, RdOk>>).marker

\* The 96 bytes a complete save of the current inputs stores
SaveTarget ==
  p_e2p_wifi_config_maker \o marker_oob \o PageImage(in_ssid) \o PageImage(in_password)

\* C1: round trip. A check with all device reads succeeding that directly
\* follows a successful save of an identifier and a passphrase of 1..31
\* non-NUL bytes returns true and yields exactly that pair.
C1_RoundTrip ==
  ( /\ call.fn = "check" /\ call.rd = AllReadsOk
    /\ prev.fn = "save" /\ prev.ret
    /\ Len(in_ssid) \in 1..31 /\ Len(in_password) \in 1..31 )
  => ( call.ret /\ call.out_ssid = in_ssid /\ call.out_password = in_password )

C1_Witness ==
  /\ call.fn = "check" /\ call.rd = AllReadsOk
  /\ prev.fn = "save" /\ prev.ret
  /\ Len(in_ssid) = 1 /\ Len(in_password) = 31
  /\ call.ret /\ call.out_ssid = in_ssid /\ call.out_password = in_password

\* C2: store validity. Page 0 matches the marker if and only if pages 1 and
\* 2 hold the identifier and passphrase of one save call that returned true.
C2_StoreValidity ==
  MarkerPresent(eeprom) <=>
    \E p \in saved : /\ PageOf(eeprom, 1) = PageImage(p[1])
                     /\ PageOf(eeprom, 2) = PageImage(p[2])

\* C3: write ordering and abort. Every save call leaves the memory with
\* exactly the first k bytes of (page 0, page 1, page 2) written, in address
\* order, for some k, every other byte as it was, and returns true exactly
\* when k is all 96 bytes.
C3_WriteOrderAbort ==
  [][ call'.fn = "save" =>
        LET img == SaveTarget
        IN \E k \in 0..(3 * E2P_PAGE_BYTE_SIZE) :
             /\ call'.ret <=> (k = 3 * E2P_PAGE_BYTE_SIZE)
             /\ \A a \in E2pAddrs : eeprom'[a] = (IF a < k THEN img[a + 1] ELSE eeprom[a])
      ]_vars

\* a save that failed at the second byte of page 1: the marker and one byte
\* of the identifier are in place, nothing after them was written
C3_Witness ==
  /\ call.fn = "save" /\ ~call.ret
  /\ PageOf(eeprom, 0) = p_e2p_wifi_config_maker \o marker_oob
  /\ eeprom[E2P_PAGE_BYTE_SIZE] = in_ssid[1]
  /\ \A a \in (E2P_PAGE_BYTE_SIZE + 1)..(3 * E2P_PAGE_BYTE_SIZE - 1) : eeprom[a] = 255

\* C4 as stated: a page 0 that differs in any of its 32 bytes from what a
\* successful save writes makes the marker check fail.
C4_AnyByteDiffers ==
  ( call.fn = "check" /\ PageOf(eeprom, 0) # p_e2p_wifi_config_maker \o marker_oob )
  => ~call.marker

\* C4: marker sensitivity. A page 0 that differs from the marker in at least
\* one of its first 30 bytes (the 29 characters and the NUL) makes the marker
\* check fail and the call return false, whatever pages 1 and 2 hold.
C4_MarkerSensitivity ==
  ( /\ call.fn = "check"
    /\ \E i \in 1..E2P_WIFI_CONFIG_MAKER_LEN :
         PageOf(eeprom, 0)[i] # p_e2p_wifi_config_maker[i] )
  => ( ~call.marker /\ ~call.ret )

\* page 0 holds a proper prefix of the marker, pages 1 and 2 look valid
C4_Witness ==
  /\ call.fn = "check" /\ call.rd = AllReadsOk
  /\ PageOf(eeprom, 0) = memcpy(BlankPage, p_e2p_wifi_config_maker, 10)
  /\ PageOf(eeprom, 1) = PageImage(Name1)
  /\ PageOf(eeprom, 2) = PageImage(Name1)
  /\ ~call.marker

\* C5: truncation and padding. A successful save stores the first 31 bytes
\* of each input and zeros after them up to the end of the page (byte 31 is
\* zero for every input length); the check that follows, its reads
\* succeeding, yields the first 31 bytes.
C5_Truncation ==
  /\ ( call.fn = "save" /\ call.ret ) =>
       /\ \A i \in 1..E2P_PAGE_BYTE_SIZE :
            /\ PageOf(eeprom, 1)[i] =
                 (IF i <= 31 /\ i <= Len(in_ssid) THEN in_ssid[i] ELSE 0)
            /\ PageOf(eeprom, 2)[i] =
                 (IF i <= 31 /\ i <= Len(in_password) THEN in_password[i] ELSE 0)
  /\ ( call.fn = "check" /\ call.rd = AllReadsOk /\ prev.fn = "save" /\ prev.ret ) =>
       /\ call.ret
       /\ call.out_ssid = Take(in_ssid, 31)
       /\ call.out_password = Take(in_password, 31)

C5_Witness ==
  /\ call.fn = "check" /\ call.rd = AllReadsOk /\ prev.fn = "save" /\ prev.ret
  /\ Len(in_ssid) = MaxStrLen /\ Len(in_password) = E2P_PAGE_BYTE_SIZE
  /\ Len(call.out_ssid) = 31 /\ Len(call.out_password) = 31
  /\ eeprom[2 * E2P_PAGE_BYTE_SIZE - 1] = 0
  /\ eeprom[3 * E2P_PAGE_BYTE_SIZE - 1] = 0

ENTER_REQUEST_PARAM_CNT == 2

Str_sync == <<115, 121, 110, 99>>      \* "sync"
Str_e2p == <<101, 50, 112>>            \* "e2p"
Str_e2p_sp == <<101, 50, 112, 32>>     \* "e2p "
Str_w == <<119>>                       \* "w"
Str_rtc == <<114, 116, 99>>            \* "rtc"

\* The statics and the device the line handlers work on, as one record
Statics ==
  [ eeprom |-> eeprom, in_ssid |-> in_ssid, in_password |-> in_password,
    call |-> call, prev |-> prev, saved |-> saved,
    s_line |-> s_line,
    e2p_stored_ssid |-> e2p_stored_ssid,
    e2p_stored_password |-> e2p_stored_password,
    s_is_e2p_wifi_config |-> s_is_e2p_wifi_config,
    s_is_wifi_config_data |-> s_is_wifi_config_data,
    s_state |-> s_state, s_tmp_ssid |-> s_tmp_ssid, s_tmp_pass |-> s_tmp_pass,
    s_is_enter_request |-> s_is_enter_request,
    s_await_param |-> s_await_param,
    out |-> out, pre |-> pre ]

SetStatics(st) ==
  /\ eeprom' = st.eeprom
  /\ in_ssid' = st.in_ssid
  /\ in_password' = st.in_password
  /\ call' = st.call
  /\ prev' = st.prev
  /\ saved' = st.saved
  /\ s_line' = st.s_line
  /\ e2p_stored_ssid' = st.e2p_stored_ssid
  /\ e2p_stored_password' = st.e2p_stored_password
  /\ s_is_e2p_wifi_config' = st.s_is_e2p_wifi_config
  /\ s_is_wifi_config_data' = st.s_is_wifi_config_data
  /\ s_state' = st.s_state
  /\ s_tmp_ssid' = st.s_tmp_ssid
  /\ s_tmp_pass' = st.s_tmp_pass
  /\ s_is_enter_request' = st.s_is_enter_request
  /\ s_await_param' = st.s_await_param
  /\ out' = st.out
  /\ pre' = st.pre

CacheOf(st) ==
  Cache(st.e2p_stored_ssid, st.e2p_stored_password,
        st.s_is_e2p_wifi_config, st.s_is_wifi_config_data)

\* e2p_save_wifi_config(ssid, pass) called by a line handler
SaveVia(st, ssid, pass, oob, acks) ==
  LET r == e2p_save_wifi_config(st.eeprom, ssid, pass, oob, acks)
  IN [ st EXCEPT
         !.eeprom = r.mem, !.in_ssid = ssid, !.in_password = pass,
         !.call = [ fn |-> "save", ret |-> r.ok, out_ssid |-> <<>>,
                    out_password |-> <<>>, marker |-> FALSE, rd |-> <<>> ],
         !.prev = PrevOf(st.call),
         !.saved = IF r.ok THEN st.saved \cup {<<ssid, pass>>} ELSE st.saved ]

\* mutant: the cache and the flags are set whatever the save returned
loop_e2p_w_always_caches(st, line_str, oob, acks) ==
  LET firstSpace == indexOf(line_str, 32, 0)
      secondSpace == indexOf(line_str, 32, firstSpace + 1)
      subcmd == substring(line_str, firstSpace + 1, secondSpace)
      thirdSpace == indexOf(line_str, 32, secondSpace + 1)
      ssid == trim(substring(line_str, secondSpace + 1, thirdSpace))
      pass == trim(substring(line_str, thirdSpace + 1, Len(line_str)))
      sv == SaveVia(st, ssid, pass, oob, acks)
  IN IF secondSpace <= 0 THEN [st EXCEPT !.out = "Invalid e2p command"]
     ELSE IF ~equalsIgnoreCase(subcmd, Str_w)
       THEN [st EXCEPT !.out = "Unknown e2p subcommand"]
     ELSE IF thirdSpace <= 0 THEN [st EXCEPT !.out = "Usage"]
     ELSE IF ssid = <<>> \/ pass = <<>>
       THEN [st EXCEPT !.out = "SSID or Password empty"]
     ELSE [ sv EXCEPT !.s_is_e2p_wifi_config = TRUE,
                      !.e2p_stored_ssid = ssid,
                      !.e2p_stored_password = pass,
                      !.s_is_wifi_config_data = TRUE,
                      !.out = IF sv.call.ret THEN "Success!" ELSE "Failed!" ]

\* mutant: the pair is saved without the test for empty strings
loop_e2p_w_saves_empty(st, line_str, oob, acks) ==
  LET firstSpace == indexOf(line_str, 32, 0)
      secondSpace == indexOf(line_str, 32, firstSpace + 1)
      subcmd == substring(line_str, firstSpace + 1, secondSpace)
      thirdSpace == indexOf(line_str, 32, secondSpace + 1)
      ssid == trim(substring(line_str, secondSpace + 1, thirdSpace))
      pass == trim(substring(line_str, thirdSpace + 1, Len(line_str)))
      sv == SaveVia(st, ssid, pass, oob, acks)
  IN IF secondSpace <= 0 THEN [st EXCEPT !.out = "Invalid e2p command"]
     ELSE IF ~equalsIgnoreCase(subcmd, Str_w)
       THEN [st EXCEPT !.out = "Unknown e2p subcommand"]
     ELSE IF thirdSpace <= 0 THEN [st EXCEPT !.out = "Usage"]
     ELSE IF sv.call.ret
       THEN [ sv EXCEPT !.s_is_e2p_wifi_config = TRUE,
                        !.e2p_stored_ssid = ssid,
                        !.e2p_stored_password = pass,
                        !.s_is_wifi_config_data = TRUE,
                        !.out = "Success!" ]
     ELSE [sv EXCEPT !.out = "Failed!"]

\* mutant: a failed save drops the credentials held
loop_e2p_w_failure_forgets(st, line_str, oob, acks) ==
  LET firstSpace == indexOf(line_str, 32, 0)
      secondSpace == indexOf(line_str, 32, firstSpace + 1)
      subcmd == substring(line_str, firstSpace + 1, secondSpace)
      thirdSpace == indexOf(line_str, 32, secondSpace + 1)
      ssid == trim(substring(line_str, secondSpace + 1, thirdSpace))
      pass == trim(substring(line_str, thirdSpace + 1, Len(line_str)))
      sv == SaveVia(st, ssid, pass, oob, acks)
  IN IF secondSpace <= 0 THEN [st EXCEPT !.out = "Invalid e2p command"]
     ELSE IF ~equalsIgnoreCase(subcmd, Str_w)
       THEN [st EXCEPT !.out = "Unknown e2p subcommand"]
     ELSE IF thirdSpace <= 0 THEN [st EXCEPT !.out = "Usage"]
     ELSE IF ssid = <<>> \/ pass = <<>>
       THEN [st EXCEPT !.out = "SSID or Password empty"]
     ELSE IF sv.call.ret
       THEN [ sv EXCEPT !.s_is_e2p_wifi_config = TRUE,
                        !.e2p_stored_ssid = ssid,
                        !.e2p_stored_password = pass,
                        !.s_is_wifi_config_data = TRUE,
                        !.out = "Success!" ]
     ELSE [sv EXCEPT !.s_is_e2p_wifi_config = FALSE,
                     !.s_is_wifi_config_data = FALSE,
                     !.out = "Failed!"]

\* loop(), the branch of a line that starts with "e2p ":
\* e2p w <ssid> <password>
loop_e2p_w(st, line_str, oob, acks) ==
  LET firstSpace == indexOf(line_str, 32, 0)
      secondSpace == indexOf(line_str, 32, firstSpace + 1)
      subcmd == substring(line_str, firstSpace + 1, secondSpace)
      thirdSpace == indexOf(line_str, 32, secondSpace + 1)
      ssid == trim(substring(line_str, secondSpace + 1, thirdSpace))
      pass == trim(substring(line_str, thirdSpace + 1, Len(line_str)))
      sv == SaveVia(st, ssid, pass, oob, acks)
  IN IF secondSpace <= 0 THEN [st EXCEPT !.out = "Invalid e2p command"]
     ELSE IF ~equalsIgnoreCase(subcmd, Str_w)
       THEN [st EXCEPT !.out = "Unknown e2p subcommand"]
     ELSE IF thirdSpace <= 0 THEN [st EXCEPT !.out = "Usage"]
     ELSE IF ssid = <<>> \/ pass = <<>>
       THEN [st EXCEPT !.out = "SSID or Password empty"]
     ELSE IF sv.call.ret
       THEN [ sv EXCEPT !.s_is_e2p_wifi_config = TRUE,
                        !.e2p_stored_ssid = ssid,
                        !.e2p_stored_password = pass,
                        !.s_is_wifi_config_data = TRUE,
                        !.out = "Success!" ]
     ELSE [sv EXCEPT !.out = "Failed!"]

\* mutant: a line that is no command is ignored without the help message
loop_show_no_help(st, line_str) ==
  IF equalsIgnoreCase(line_str, Str_e2p)
    THEN [st EXCEPT !.out = IF st.s_is_e2p_wifi_config
                              THEN "SSID: Password:" ELSE "Not Stored"]
  ELSE IF equalsIgnoreCase(line_str, Str_rtc) THEN [st EXCEPT !.out = "RTC:"]
  ELSE st

\* the "e2p", "rtc" and unknown-command branches, the same in both builds
loop_show(st, line_str) ==
  IF equalsIgnoreCase(line_str, Str_e2p)
    THEN [st EXCEPT !.out = IF st.s_is_e2p_wifi_config
                              THEN "SSID: Password:" ELSE "Not Stored"]
  ELSE IF equalsIgnoreCase(line_str, Str_rtc) THEN [st EXCEPT !.out = "RTC:"]
  ELSE [st EXCEPT !.out = "Unknown command"]

\* mutant: the sync command does not test s_is_wifi_config_data
loop_line_cmd_sync_unguarded(st0, line_str, oob, acks) ==
  LET st == [st0 EXCEPT !.pre = CacheOf(st0)]
  IN IF equalsIgnoreCase(line_str, Str_sync)
       THEN [st |-> [st EXCEPT !.out = "WiFi Connecting..."], sync |-> TRUE]
     ELSE IF Len(line_str) >= 4
               /\ equalsIgnoreCase(substring(line_str, 0, 4), Str_e2p_sp)
       THEN [st |-> loop_e2p_w(st, line_str, oob, acks), sync |-> FALSE]
     ELSE [st |-> loop_show(st, line_str), sync |-> FALSE]

\* loop() of the command build, the body run for one non-empty trimmed
\* line.  Result: the statics and whether rtc_and_ntp_sync is called.
loop_line_cmd(st0, line_str, oob, acks) ==
  LET st == [st0 EXCEPT !.pre = CacheOf(st0)]
  IN IF equalsIgnoreCase(line_str, Str_sync)
       THEN IF st.s_is_wifi_config_data
              THEN [st |-> [st EXCEPT !.out = "WiFi Connecting..."], sync |-> TRUE]
              ELSE [st |-> [st EXCEPT !.out = "No WiFi Config Data"], sync |-> FALSE]
     ELSE IF Len(line_str) >= 4
               /\ equalsIgnoreCase(substring(line_str, 0, 4), Str_e2p_sp)
       THEN [st |-> loop_e2p_w(st, line_str, oob, acks), sync |-> FALSE]
     ELSE [st |-> loop_show(st, line_str), sync |-> FALSE]

\* get_wifi_config_at_serial_line(input_line_str)
get_wifi_config_at_serial_line(st, input_line_str, oob, acks) ==
  CASE st.s_state = "STATE_INIT" ->
         [ st EXCEPT !.s_tmp_ssid = <<>>, !.s_tmp_pass = <<>>,
                     !.s_await_param = 0,
                     !.s_state = "STATE_AWAIT_WIFI_CONFIG" ]
    [] st.s_state = "STATE_AWAIT_WIFI_CONFIG" ->
         IF st.s_await_param < ENTER_REQUEST_PARAM_CNT
           THEN IF ~st.s_is_enter_request
                  THEN [st EXCEPT !.out = "Enter"]
                ELSE IF st.s_await_param = 0
                  THEN [st EXCEPT !.s_tmp_ssid = input_line_str,
                                  !.s_await_param = @ + 1]
                ELSE [st EXCEPT !.s_tmp_pass = input_line_str,
                                !.s_await_param = @ + 1]
           ELSE [st EXCEPT !.s_state = "STATE_WIFI_CONFIG_E2P_SAVE"]
    [] st.s_state = "STATE_WIFI_CONFIG_E2P_SAVE" ->
         LET sv == SaveVia(st, st.s_tmp_ssid, st.s_tmp_pass, oob, acks)
         IN [ sv EXCEPT
                !.s_is_e2p_wifi_config = sv.call.ret \/ @,
                !.out = IF sv.call.ret THEN "Success!" ELSE "Failed!",
                !.e2p_stored_ssid = st.s_tmp_ssid,
                !.e2p_stored_password = st.s_tmp_pass,
                !.s_is_wifi_config_data = TRUE,
                !.s_is_enter_request = FALSE,
                !.s_state = "STATE_IDLE" ]
    [] OTHER -> st

\* loop() of the prompt build, the end of the body run for one line:
\* "WiFi設定入力待ち状態の場合"
loop_tail(st, line_str, oob, acks) ==
  IF st.s_is_enter_request /\ st.s_await_param < ENTER_REQUEST_PARAM_CNT
    THEN get_wifi_config_at_serial_line(st, line_str, oob, acks)
    ELSE st

\* loop() of the prompt build, the body run for one non-empty trimmed line;
\* when rtc_and_ntp_sync is called, the end of the body runs after it returns
loop_line_prompt(st0, line_str, oob, acks) ==
  LET st == [st0 EXCEPT !.pre = CacheOf(st0)]
  IN IF equalsIgnoreCase(line_str, Str_sync)
       THEN IF st.s_is_wifi_config_data
              THEN [st |-> [st EXCEPT !.out = "Wifi Connectting!"], sync |-> TRUE]
              ELSE [ st |-> loop_tail([st EXCEPT !.s_is_enter_request = TRUE,
                                                 !.s_state = "STATE_INIT",
                                                 !.out = ""],
                                      line_str, oob, acks),
                     sync |-> FALSE ]
     ELSE [ st |-> loop_tail(loop_show(st, line_str), line_str, oob, acks),
            sync |-> FALSE ]

loop_line(b, st, line_str, oob, acks) ==
  IF b = "cmd" THEN loop_line_cmd(st, line_str, oob, acks)
  ELSE loop_line_prompt(st, line_str, oob, acks)

NotCr(c) == c # 13

\* loop(): the characters available are read one by one; '\r' is skipped,
\* '\n' ends a line, any other character is appended to s_line.  The
\* reading stops where rtc_and_ntp_sync is called.  Computed line by line:
\* the characters up to the next '\n', less the '\r's, go to s_line.
\* Result: the statics, the characters left and whether a sync starts.
RECURSIVE loop(_, _, _, _, _)
loop(b, st, chars, oob, acks) ==
  LET nl == indexOf(chars, 10, 0)
  IN IF nl = -1
       THEN [ st |-> [st EXCEPT !.s_line = @ \o SelectSeq(chars, NotCr)],
              rx |-> <<>>, sync |-> FALSE ]
       ELSE
         LET st1 == [st EXCEPT !.s_line = @ \o SelectSeq(SubSeq(chars, 1, nl), NotCr)]
             rest == SubSeq(chars, nl + 2, Len(chars))
             line_str == trim(st1.s_line)
         IN IF Len(line_str) > 0
              THEN LET r == loop_line(b, st1, line_str, oob, acks)
                   IN IF r.sync THEN [st |-> r.st, rx |-> rest, sync |-> TRUE]
                      ELSE loop(b, [r.st EXCEPT !.s_line = <<>>], rest, oob, acks)
              ELSE loop(b, [st1 EXCEPT !.s_line = <<>>], rest, oob, acks)

\* ------------------------------------------------------------------------
\* rtc_and_ntp_sync, get_ntp_time, send_ntp_packet

\* Literals of the prompt build's rtc_and_ntp_sync and get_ntp_time
PROMPT_CONNECT_TIMEOUT_MS == 20000
PROMPT_POLL_DELAY_MS == 500
PROMPT_NTP_POLL_DELAY_MS == 10

\* Bounds of the model: the step by which time passes while get_ntp_time
\* waits, and the datagrams that arrive during one get_ntp_time
TickMs == 2500
MaxDgrams == 2

\* The two server names of the sketch and the port of s_udp.beginPacket
p_ntp_primary_server == "ntp.nict.jp"
p_ntp_secondary_server == "ntp.jst.mfeed.ad.jp"
NTP_PORT == 123

\* send_ntp_packet: the 48 bytes sent
send_ntp_packet(b) ==
  [ i \in 1..NTP_PACKET_SIZE |->
      IF i = 1 THEN 227
      ELSE IF b = "cmd" THEN 0
      ELSE CASE i = 3 -> 6 [] i = 4 -> 236 [] i = 13 -> 49 [] i = 14 -> 78
             [] i = 15 -> 49 [] i = 16 -> 52 [] OTHER -> 0 ]

\* get_ntp_time, the value stored in `result` from the 48 bytes read into
\* s_packet_buf.  The command build adds one second when byte 44 >= 0x80;
\* the prompt build does not look at byte 44.
get_ntp_time_result(b, buf) ==
  LET secsSince1900 == BigEndian32(buf[41], buf[42], buf[43], buf[44])
      rounded == IF b = "cmd" /\ buf[45] >= 128
                   THEN Add32(secsSince1900, U32(1)) ELSE secsSince1900
  IN Sub32(rounded, SEC_1970_TO_1900)

\* A datagram of `size` bytes: byte 0, bytes 40..43, byte 44, zeros elsewhere
Dgram(hdr, secs, frac, size) ==
  [ i \in 1..size |->
      IF i = 1 THEN hdr
      ELSE IF i >= 41 /\ i <= 44 THEN secs[i - 40]
      ELSE IF i = 45 THEN frac
      ELSE 0 ]

\* byte 0 of a server reply: LI = 0, VN = 4, Mode = 4
ServerHdr == 4 * 8 + 4

\* A reply cut after 47 bytes, a reply, and the request sent back (Mode = 3)
ShortDg == Dgram(ServerHdr, <<131, 170, 126, 128>>, 255, NTP_PACKET_SIZE - 1)
GoodDg == Dgram(ServerHdr, <<237, 0, 0, 1>>, 200, NTP_PACKET_SIZE)
EchoDg == send_ntp_packet("cmd")

\* A reply one second before 1970: the epoch is 2^32 - 1 and the offset to
\* civil time wraps it
WrapDg == Dgram(ServerHdr, <<131, 170, 126, 127>>, 0, NTP_PACKET_SIZE)

\* The datagrams that may arrive during a sync of the sketch
ReplySet == {ShortDg, GoodDg, EchoDg, WrapDg}

\* The datagrams that may arrive when get_ntp_time is examined on its own:
\* seconds at, just below and far above the 1970 offset, fractions around
\* one half, 0, 47, 48 and 68 bytes long
NtpDgSet ==
  { Dgram(ServerHdr, secs, frac, NTP_PACKET_SIZE) :
      secs \in { <<131, 170, 126, 128>>, <<131, 170, 126, 127>>,
                 <<255, 255, 255, 255>> },
      frac \in {0, 127, 128, 255} }
    \cup { <<>>, ShortDg, EchoDg,
           Dgram(ServerHdr, <<237, 0, 0, 1>>, 128, NTP_PACKET_SIZE + 20) }

\* millis() when a sync starts: soon after boot, or 3 s before it wraps
MillisStarts == { U32(1000), [hi |-> Half - 1, lo |-> Half - 3000] }

\* After how many polls of the wait loop the association completes: before
\* the first, during the first, during the last poll of either build, during
\* the poll at which the command build times out, never (-1)
NetAll ==
  { 0, 1, PROMPT_CONNECT_TIMEOUT_MS \div PROMPT_POLL_DELAY_MS,
    WIFI_CONNECT_TIMEOUT_MS \div WIFI_POLL_DELAY_MS,
    WIFI_CONNECT_TIMEOUT_MS \div WIFI_POLL_DELAY_MS + 1, -1 }

\* mutant: the wait is compared with a deadline, start + NTP_TIMEOUT_MS
InWindow_deadline == Lt32(millis, Add32(start, U32(NTP_TIMEOUT_MS)))

\* millis() - start < NTP_TIMEOUT_MS
InWindow == Lt32(Sub32(millis, start), U32(NTP_TIMEOUT_MS))

\* loop() calls rtc_and_ntp_sync(e2p_stored_ssid, e2p_stored_password):
\* the function up to WiFi.begin and the reading of millis()
SyncBegin ==
  /\ pc = "sync"
  /\ \E n \in nets : \E m \in MillisStarts :
       /\ net' = n
       /\ millis' = m
       /\ wait_time_ms' = m
       /\ wifi' = IF n = 0 THEN "connected" ELSE "connecting"
  /\ polls' = 0
  /\ is_wifi_connet_timeout' = FALSE
  /\ sync_log' = << <<"begin", e2p_stored_ssid, e2p_stored_password>> >>
  /\ epoch' = Unset
  /\ fetch' = NoFetch
  /\ udp_q' = <<>>
  /\ arrived' = <<>>
  /\ sync_ret' = [set |-> FALSE, v |-> FALSE]
  /\ nsyncs' = nsyncs + 1
  /\ pc' = "assoc"
  /\ UNCHANGED <<storeVars, build, hw, script, nets, rx, s_line,
                 e2p_stored_ssid, e2p_stored_password, s_is_e2p_wifi_config,
                 s_is_wifi_config_data, s_state, s_tmp_ssid, s_tmp_pass,
                 s_is_enter_request, s_await_param, out, pre, loaded,
                 start, s_packet_buf, rtc_time>>

\* What a sync step leaves alone besides the sync's own variables
syncFrame ==
  << storeVars, build, hw, script, nets, rx, s_line, e2p_stored_ssid,
     e2p_stored_password, s_is_e2p_wifi_config, s_is_wifi_config_data,
     s_state, s_tmp_ssid, s_tmp_pass, s_is_enter_request, s_await_param,
     out, pre, loaded, net, nsyncs >>

\* The wait loop goes round once more
AssocWaiting ==
  IF build = "cmd"
    THEN wifi # "connected" /\ ~is_wifi_connet_timeout
    ELSE /\ wifi # "connected"
         /\ Lt32(Sub32(millis, wait_time_ms), U32(PROMPT_CONNECT_TIMEOUT_MS))

\* mutant: the wait loop has no timeout test
AssocPoll_no_timeout ==
  /\ pc = "assoc"
  /\ wifi # "connected"
  /\ millis' = Add32(millis, U32(IF build = "cmd" THEN WIFI_POLL_DELAY_MS
                                 ELSE PROMPT_POLL_DELAY_MS))
  /\ polls' = polls + 1
  /\ wifi' = IF net = polls + 1 THEN "connected" ELSE wifi
  /\ UNCHANGED <<syncFrame, pc, wait_time_ms, is_wifi_connet_timeout, start,
                 udp_q, arrived, s_packet_buf, epoch, fetch, rtc_time,
                 sync_log, sync_ret>>

\* One round of the wait loop: delay(), during which the association may
\* complete, and in the command build the timeout test after it
AssocPoll ==
  /\ pc = "assoc"
  /\ AssocWaiting
  /\ LET now == Add32(millis, U32(IF build = "cmd" THEN WIFI_POLL_DELAY_MS
                                  ELSE PROMPT_POLL_DELAY_MS))
     IN /\ millis' = now
        /\ is_wifi_connet_timeout' =
             ( build = "cmd"
               /\ Lt32(U32(WIFI_CONNECT_TIMEOUT_MS), Sub32(now, wait_time_ms)) )
  /\ polls' = polls + 1
  /\ wifi' = IF net = polls + 1 THEN "connected" ELSE wifi
  /\ UNCHANGED <<syncFrame, pc, wait_time_ms, start, udp_q, arrived,
                 s_packet_buf, epoch, fetch, rtc_time, sync_log, sync_ret>>

\* The wait loop has ended and the station is associated: get_ntp_time is
\* called
AssocConnected ==
  /\ pc = "assoc"
  /\ ~AssocWaiting
  /\ ~is_wifi_connet_timeout
  /\ wifi = "connected"
  /\ pc' = "get_ntp_time"
  /\ UNCHANGED <<syncFrame, wifi, millis, polls, wait_time_ms,
                 is_wifi_connet_timeout, start, udp_q, arrived, s_packet_buf,
                 epoch, fetch, rtc_time, sync_log, sync_ret>>

\* The wait loop has ended by timeout, or without an association: the
\* function returns false; WiFi.disconnect is not called
AssocFailed ==
  /\ pc = "assoc"
  /\ ~AssocWaiting
  /\ is_wifi_connet_timeout \/ wifi # "connected"
  /\ sync_ret' = [set |-> TRUE, v |-> FALSE]
  /\ pc' = "sync_return"
  /\ UNCHANGED <<syncFrame, wifi, millis, polls, wait_time_ms,
                 is_wifi_connet_timeout, start, udp_q, arrived, s_packet_buf,
                 epoch, fetch, rtc_time, sync_log>>

\* get_ntp_time up to the loop: s_udp.begin, send_ntp_packet, start = millis()
FetchStart ==
  /\ pc = "get_ntp_time"
  /\ udp_q' = <<>>
  /\ s_packet_buf' = send_ntp_packet(build)
  /\ sync_log' = Append(sync_log, <<"send", p_ntp_primary_server, NTP_PORT,
                                    send_ntp_packet(build)>>)
  /\ start' = millis
  /\ pc' = "poll"
  /\ UNCHANGED <<syncFrame, wifi, millis, polls, wait_time_ms,
                 is_wifi_connet_timeout, arrived, epoch, fetch, rtc_time,
                 sync_ret>>

\* A datagram reaches the socket
Deliver(d) ==
  /\ pc = "poll"
  /\ Len(arrived) < MaxDgrams
  /\ Sub32(millis, start).lo % TickMs = 0
  /\ udp_q' = Append(udp_q, d)
  /\ arrived' = Append(arrived, [d |-> d, in_time |-> InWindow])
  /\ UNCHANGED <<syncFrame, pc, wifi, millis, polls, wait_time_ms,
                 is_wifi_connet_timeout, start, s_packet_buf, epoch, fetch,
                 rtc_time, sync_log, sync_ret>>

Arrive == \E d \in ReplySet : Deliver(d)

ArriveAny == \E d \in NtpDgSet : Deliver(d)

\* Time passes while the command build's loop spins
Tick ==
  /\ pc = "poll"
  /\ build = "cmd"
  /\ InWindow
  /\ millis' = Add32(millis, U32(TickMs))
  /\ UNCHANGED <<syncFrame, pc, wifi, polls, wait_time_ms,
                 is_wifi_connet_timeout, start, udp_q, arrived, s_packet_buf,
                 epoch, fetch, rtc_time, sync_log, sync_ret>>

\* mutant: the request is sent again after a datagram that was too short
FetchPoll_resends ==
  /\ pc = "poll"
  /\ InWindow
  /\ IF udp_q # <<>> /\ Len(Head(udp_q)) >= NTP_PACKET_SIZE
       THEN LET buf == Take(Head(udp_q), NTP_PACKET_SIZE)
            IN /\ s_packet_buf' = buf
               /\ epoch' = [set |-> TRUE, v |-> get_ntp_time_result(build, buf)]
               /\ fetch' = [done |-> TRUE, ret |-> TRUE, from |-> Head(udp_q)]
               /\ udp_q' = Tail(udp_q)
               /\ pc' = "fetched"
               /\ UNCHANGED <<millis, sync_log>>
       ELSE /\ udp_q' = IF udp_q = <<>> THEN udp_q ELSE Tail(udp_q)
            /\ sync_log' = IF udp_q = <<>> THEN sync_log
                           ELSE Append(sync_log, <<"send", p_ntp_primary_server,
                                                   NTP_PORT, send_ntp_packet(build)>>)
            /\ millis' = IF build = "cmd" THEN millis
                         ELSE Add32(millis, U32(PROMPT_NTP_POLL_DELAY_MS))
            /\ UNCHANGED <<s_packet_buf, epoch, fetch, pc>>
  /\ UNCHANGED <<syncFrame, wifi, polls, wait_time_ms, is_wifi_connet_timeout,
                 start, arrived, rtc_time, sync_ret>>

\* One round of get_ntp_time's loop: parsePacket; a datagram of at least 48
\* bytes is read and decoded and the function returns true; a shorter one is
\* dropped by the next parsePacket; the prompt build then waits 10 ms
FetchPoll ==
  /\ pc = "poll"
  /\ InWindow
  /\ IF udp_q # <<>> /\ Len(Head(udp_q)) >= NTP_PACKET_SIZE
       THEN LET buf == Take(Head(udp_q), NTP_PACKET_SIZE)
            IN /\ s_packet_buf' = buf
               /\ epoch' = [set |-> TRUE, v |-> get_ntp_time_result(build, buf)]
               /\ fetch' = [done |-> TRUE, ret |-> TRUE, from |-> Head(udp_q)]
               /\ udp_q' = Tail(udp_q)
               /\ pc' = "fetched"
               /\ UNCHANGED millis
       ELSE /\ udp_q' = IF udp_q = <<>> THEN udp_q ELSE Tail(udp_q)
            /\ millis' = IF build = "cmd" THEN millis
                         ELSE Add32(millis, U32(PROMPT_NTP_POLL_DELAY_MS))
            /\ UNCHANGED <<s_packet_buf, epoch, fetch, pc>>
  /\ UNCHANGED <<syncFrame, wifi, polls, wait_time_ms, is_wifi_connet_timeout,
                 start, arrived, rtc_time, sync_log, sync_ret>>

\* get_ntp_time's loop ends by timeout: return false
FetchTimeout ==
  /\ pc = "poll"
  /\ ~InWindow
  /\ fetch' = [done |-> TRUE, ret |-> FALSE, from |-> <<>>]
  /\ pc' = "fetched"
  /\ UNCHANGED <<syncFrame, wifi, millis, polls, wait_time_ms,
                 is_wifi_connet_timeout, start, udp_q, arrived, s_packet_buf,
                 epoch, rtc_time, sync_log, sync_ret>>

\* Whether the DS3231 acknowledges the write of s_rtc.adjust: an absent
\* device never does, a present one may fail to
RtcAcks == IF hw.rtc THEN BOOLEAN ELSE {FALSE}

\* mutant: the offset to civil time is added to a value that already has it
SyncFinish_offset_twice ==
  /\ pc = "fetched"
  /\ \E ack \in RtcAcks :
       LET epoch_jst == Add32(Add32(epoch.v, JST_UTC_OFFSET_SEC),
                              JST_UTC_OFFSET_SEC)
       IN IF fetch.ret
            THEN /\ rtc_time' = IF ack THEN [set |-> TRUE, v |-> epoch_jst]
                                 ELSE rtc_time
                 /\ sync_log' = sync_log \o << <<"adjust", epoch_jst, ack>>,
                                               <<"disconnect">> >>
            ELSE /\ rtc_time' = rtc_time
                 /\ sync_log' = Append(sync_log, <<"disconnect">>)
  /\ wifi' = "idle"
  /\ sync_ret' = [set |-> TRUE, v |-> fetch.ret]
  /\ pc' = "sync_return"
  /\ UNCHANGED <<syncFrame, millis, polls, wait_time_ms,
                 is_wifi_connet_timeout, start, udp_q, arrived, s_packet_buf,
                 epoch, fetch>>

\* mutant: the clock is adjusted whatever get_ntp_time returned
SyncFinish_always_adjusts ==
  /\ pc = "fetched"
  /\ \E ack \in RtcAcks :
       LET epoch_jst == Add32(epoch.v, JST_UTC_OFFSET_SEC)
       IN /\ rtc_time' = IF ack THEN [set |-> TRUE, v |-> epoch_jst]
                         ELSE rtc_time
          /\ sync_log' = sync_log \o << <<"adjust", epoch_jst, ack>>,
                                        <<"disconnect">> >>
  /\ wifi' = "idle"
  /\ sync_ret' = [set |-> TRUE, v |-> fetch.ret]
  /\ pc' = "sync_return"
  /\ UNCHANGED <<syncFrame, millis, polls, wait_time_ms,
                 is_wifi_connet_timeout, start, udp_q, arrived, s_packet_buf,
                 epoch, fetch>>

\* mutant: WiFi.disconnect is called before s_rtc.adjust
SyncFinish_disconnects_first ==
  /\ pc = "fetched"
  /\ \E ack \in RtcAcks :
       LET epoch_jst == Add32(epoch.v, JST_UTC_OFFSET_SEC)
       IN IF fetch.ret
            THEN /\ rtc_time' = IF ack THEN [set |-> TRUE, v |-> epoch_jst]
                                ELSE rtc_time
                 /\ sync_log' = sync_log \o << <<"disconnect">>,
                                               <<"adjust", epoch_jst, ack>> >>
            ELSE /\ rtc_time' = rtc_time
                 /\ sync_log' = Append(sync_log, <<"disconnect">>)
  /\ wifi' = "idle"
  /\ sync_ret' = [set |-> TRUE, v |-> fetch.ret]
  /\ pc' = "sync_return"
  /\ UNCHANGED <<syncFrame, millis, polls, wait_time_ms,
                 is_wifi_connet_timeout, start, udp_q, arrived, s_packet_buf,
                 epoch, fetch>>

\* rtc_and_ntp_sync after get_ntp_time has returned: on success
\* s_rtc.adjust(DateTime(epoch + JST_UTC_OFFSET_SEC)), whose I2C write the
\* DS3231 acknowledges or not and whose outcome the code does not see, and
\* ret = true; then WiFi.disconnect(true) and return
SyncFinish ==
  /\ pc = "fetched"
  /\ \E ack \in RtcAcks :
       LET epoch_jst == Add32(epoch.v, JST_UTC_OFFSET_SEC)
       IN IF fetch.ret
            THEN /\ rtc_time' = IF ack THEN [set |-> TRUE, v |-> epoch_jst]
                                ELSE rtc_time
                 /\ sync_log' = sync_log \o << <<"adjust", epoch_jst, ack>>,
                                               <<"disconnect">> >>
            ELSE /\ rtc_time' = rtc_time
                 /\ sync_log' = Append(sync_log, <<"disconnect">>)
  /\ wifi' = "idle"
  /\ sync_ret' = [set |-> TRUE, v |-> fetch.ret]
  /\ pc' = "sync_return"
  /\ UNCHANGED <<syncFrame, millis, polls, wait_time_ms,
                 is_wifi_connet_timeout, start, udp_q, arrived, s_packet_buf,
                 epoch, fetch>>

\* ------------------------------------------------------------------------
\* setup(), loop() and the user at the serial line

\* Where the device stops acknowledging during a save made by the sketch:
\* at once, in the middle of page 1, never
FwAcks == {0, E2P_PAGE_BYTE_SIZE + 8, 3 * E2P_PAGE_BYTE_SIZE}

\* What the EEPROM holds at power-up: erased; a stored pair "a", "b"; the
\* marker alone, pages 1 and 2 erased
FwImages(oob) ==
  { Image(BlankPage, BlankPage, BlankPage),
    Image(p_e2p_wifi_config_maker \o oob, PageImage(<<97>>), PageImage(<<98>>)),
    Image(p_e2p_wifi_config_maker \o oob, BlankPage, BlankPage) }

NL == <<10>>
Line_sync == Str_sync \o NL
Line_SYNC_crlf == <<32, 83, 89, 78, 67, 13, 10>>          \* " SYNC\r\n"
Line_e2p == Str_e2p \o NL
Line_rtc == Str_rtc \o NL
Line_unknown == <<120, 10>>                               \* "x\n"
Line_blank == <<32, 10>>                                  \* " \n"
Line_blank_crlf == <<32, 13, 10>>                         \* " \r\n"
Line_w(ssid, pass) == Str_e2p_sp \o Str_w \o <<32>> \o ssid \o <<32>> \o pass \o NL
Line_w_nopass == Str_e2p_sp \o Str_w \o <<32, 97, 10>>    \* "e2p w a\n"
Line_w_only == Str_e2p_sp \o Str_w \o NL                  \* "e2p w\n"
Line_w_empty == Str_e2p_sp \o Str_w \o <<32, 32, 98, 10>> \* "e2p w  b\n"
Line_bad_sub == Str_e2p_sp \o <<120, 32, 97, 32, 98, 10>> \* "e2p x a b\n"

\* What the user sends, chunk by chunk, and how the network then behaves
Scenarios ==
  { [ chunks |-> << Line_SYNC_crlf >>, nets |-> NetAll ],
    [ chunks |-> << Line_w(<<97>>, <<98>>), Line_sync, Line_e2p >>,
      nets |-> {0} ],
    [ chunks |-> << Line_w(<<99>>, <<100>>), Line_w(NameLong, <<101>>),
                    Line_e2p, Line_sync >>,
      nets |-> {0} ],
    [ chunks |-> << <<115, 121>>, <<110, 99, 10>> \o Line_sync >>,
      nets |-> {0, -1} ],
    [ chunks |-> << Line_e2p, Line_rtc, Line_unknown \o Line_blank,
                    Line_blank_crlf, Line_w_nopass, Line_bad_sub, Line_w_only, Line_w_empty >>,
      nets |-> {0} ],
    [ chunks |-> << Line_sync, <<97, 10>>, <<98, 10>>, Line_sync, Line_e2p >>,
      nets |-> {0} ] }

\* Power-up
Init ==
  /\ build \in {"cmd", "prompt"}
  /\ hw \in [e2p : BOOLEAN, rtc : BOOLEAN]
  /\ marker_oob \in OobSet
  /\ eeprom \in FwImages(marker_oob)
  /\ \E sc \in Scenarios : script = sc.chunks /\ nets = sc.nets
  /\ in_ssid = <<>>
  /\ in_password = <<>>
  /\ call = NoCall
  /\ prev = PrevOf(NoCall)
  /\ saved = {}
  /\ pc = "setup"
  /\ rx = <<>>
  /\ StaticsAtReset
  /\ NoSyncYet

\* setup(): rp2040.reboot() when the EEPROM (in the command build: the
\* EEPROM or the RTC) does not answer, else the stored pair is loaded
Setup ==
  /\ pc = "setup"
  /\ IF ~hw.e2p \/ (build = "cmd" /\ ~hw.rtc)
       THEN /\ pc' = "reboot"
            /\ UNCHANGED <<eeprom, call, prev, e2p_stored_ssid,
                           e2p_stored_password, s_is_e2p_wifi_config,
                           s_is_wifi_config_data, out, loaded>>
       ELSE \E rd \in RdSeqs :
              LET r == e2p_check_wifi_config(eeprom, e2p_stored_ssid,
                                             e2p_stored_password, rd)
              IN /\ e2p_stored_ssid' = r.ssid
                 /\ e2p_stored_password' = r.password
                 /\ s_is_e2p_wifi_config' = r.ret
                 /\ s_is_wifi_config_data' = (r.ret \/ s_is_wifi_config_data)
                 /\ call' = [ fn |-> "check", ret |-> r.ret, out_ssid |-> r.ssid,
                              out_password |-> r.password, marker |-> r.marker,
                              rd |-> [i \in 1..3 |-> rd[i] = RdOk] ]
                 /\ prev' = PrevOf(call)
                 /\ loaded' = [ret |-> r.ret, ssid |-> r.ssid, password |-> r.password]
                 /\ out' = IF hw.rtc THEN out ELSE "RTC not found"
                 /\ pc' = "loop"
                 /\ UNCHANGED eeprom
  /\ UNCHANGED <<marker_oob, in_ssid, in_password, saved, build, hw, script,
                 nets, rx, s_line, s_state, s_tmp_ssid, s_tmp_pass,
                 s_is_enter_request, s_await_param, pre, syncVars>>

\* rp2040.reboot(): the firmware starts again from its reset state, which
\* setup() has not changed yet
Reboot ==
  /\ pc = "reboot"
  /\ pc' = "setup"
  /\ UNCHANGED <<storeVars, build, hw, script, nets, rx, s_line,
                 e2p_stored_ssid, e2p_stored_password, s_is_e2p_wifi_config,
                 s_is_wifi_config_data, s_state, s_tmp_ssid, s_tmp_pass,
                 s_is_enter_request, s_await_param, out, pre, loaded, syncVars>>

\* The user sends the next chunk
SerialRx ==
  /\ pc = "loop"
  /\ rx = <<>>
  /\ script # <<>>
  /\ rx' = Head(script)
  /\ script' = Tail(script)
  /\ UNCHANGED <<storeVars, build, hw, pc, nets, s_line, e2p_stored_ssid,
                 e2p_stored_password, s_is_e2p_wifi_config,
                 s_is_wifi_config_data, s_state, s_tmp_ssid, s_tmp_pass,
                 s_is_enter_request, s_await_param, out, pre, loaded, syncVars>>

\* loop() with characters available
Loop ==
  /\ pc = "loop"
  /\ rx # <<>>
  /\ \E acks \in FwAcks :
       LET r == loop(build, Statics, rx, marker_oob, acks)
       IN /\ SetStatics(r.st)
          /\ rx' = r.rx
          /\ pc' = IF r.sync THEN "sync" ELSE "loop"
  /\ UNCHANGED <<marker_oob, build, hw, script, nets, loaded, syncVars>>

\* rtc_and_ntp_sync has returned into loop(): the end of the body for this
\* line, then s_line = ""
SyncReturn ==
  /\ pc = "sync_return"
  /\ \E acks \in FwAcks :
       LET st == IF build = "cmd" THEN Statics
                 ELSE loop_tail(Statics, trim(s_line), marker_oob, acks)
       IN SetStatics([st EXCEPT !.s_line = <<>>])
  /\ pc' = "loop"
  /\ UNCHANGED <<marker_oob, build, hw, script, nets, rx, loaded, syncVars>>

Next ==
  \/ Setup
  \/ Reboot
  \/ SerialRx
  \/ Loop
  \/ SyncBegin
  \/ AssocPoll
  \/ AssocConnected
  \/ AssocFailed
  \/ FetchStart
  \/ Arrive
  \/ Tick
  \/ FetchPoll
  \/ FetchTimeout
  \/ SyncFinish
  \/ SyncReturn

\* The sketch from power-up
Spec == Init /\ [][Next]_vars

\* get_ntp_time on its own: called with the station associated, any of
\* NtpDgSet arriving
InitNtp ==
  /\ build \in {"cmd", "prompt"}
  /\ hw = [e2p |-> TRUE, rtc |-> TRUE]
  /\ marker_oob = <<0, 0>>
  /\ eeprom = Image(p_e2p_wifi_config_maker \o marker_oob,
                    PageImage(<<97>>), PageImage(<<98>>))
  /\ script = <<>>
  /\ nets = {0}
  /\ in_ssid = <<>>
  /\ in_password = <<>>
  /\ call = NoCall
  /\ prev = PrevOf(NoCall)
  /\ saved = {}
  /\ rx = <<>>
  /\ s_line = Str_sync
  /\ e2p_stored_ssid = <<97>>
  /\ e2p_stored_password = <<98>>
  /\ s_is_e2p_wifi_config = TRUE
  /\ s_is_wifi_config_data = TRUE
  /\ s_state = "STATE_IDLE"
  /\ s_tmp_ssid = <<>>
  /\ s_tmp_pass = <<>>
  /\ s_is_enter_request = FALSE
  /\ s_await_param = 0
  /\ out = ""
  /\ pre = Cache(<<97>>, <<98>>, TRUE, TRUE)
  /\ loaded = [ret |-> TRUE, ssid |-> <<97>>, password |-> <<98>>]
  /\ pc = "get_ntp_time"
  /\ wifi = "connected"
  /\ millis \in MillisStarts
  /\ net = 0
  /\ polls = 0
  /\ wait_time_ms = millis
  /\ is_wifi_connet_timeout = FALSE
  /\ start = U32(0)
  /\ udp_q = <<>>
  /\ arrived = <<>>
  /\ s_packet_buf \in {Rep(0, NTP_PACKET_SIZE), Rep(255, NTP_PACKET_SIZE)}
  /\ epoch = Unset
  /\ fetch = NoFetch
  /\ rtc_time = Unset
  /\ sync_log = << <<"begin", <<97>>, <<98>> >> >>
  /\ sync_ret = [set |-> FALSE, v |-> FALSE]
  /\ nsyncs = 1

NextNtp == FetchStart \/ ArriveAny \/ Tick \/ FetchPoll \/ FetchTimeout

SpecNtp == InitNtp /\ [][NextNtp]_vars

\* ------------------------------------------------------------------------
\* Claims about the command loop and the NTP fetch

CacheNow ==
  Cache(e2p_stored_ssid, e2p_stored_password,
        s_is_e2p_wifi_config, s_is_wifi_config_data)

\* rtc_and_ntp_sync is running
InSync == pc \in {"assoc", "get_ntp_time", "poll", "fetched", "sync_return"}

\* C7: a write failure is never treated as success. After a line whose
\* save call returned false, the cached pair and both presence flags are
\* what they were when the line was dispatched; the pair in use is always
\* one that setup() loaded or one whose save returned true, and that is the
\* pair a sync connects with.
C7_WriteFailureNotSuccess ==
  /\ out = "Failed!" => ( call.fn = "save" /\ ~call.ret /\ CacheNow = pre )
  /\ s_is_wifi_config_data =>
       \/ ( loaded.ret /\ e2p_stored_ssid = loaded.ssid
                       /\ e2p_stored_password = loaded.password )
       \/ <<e2p_stored_ssid, e2p_stored_password>> \in saved
  /\ s_is_e2p_wifi_config => ( loaded.ret \/ saved # {} )
  /\ InSync => sync_log[1] = <<"begin", e2p_stored_ssid, e2p_stored_password>>

\* the save of ("c", "d") succeeded, the save of a 40-byte identifier then
\* failed in page 1, and the sync that follows connects with ("c", "d")
C7_Witness ==
  /\ build = "cmd"
  /\ call.fn = "save" /\ ~call.ret
  /\ in_ssid = NameLong
  /\ PageOf(eeprom, 2) = PageImage(<<100>>)
  /\ saved = { << <<99>>, <<100>> >> }
  /\ pc = "assoc"
  /\ sync_log[1] = <<"begin", <<99>>, <<100>> >>

\* The big-endian value of bytes 40..43 of datagram d
SecsOf(d) == BigEndian32(d[41], d[42], d[43], d[44])

\* C8: time decode with half-up rounding. For every accepted reply, with S
\* the big-endian value of bytes 40..43 and r = 1 if byte 44 >= 128 else 0,
\* get_ntp_time stores (S + r - 2208988800) mod 2^32 in the result.
C8_HalfUpRounding ==
  ( fetch.done /\ fetch.ret ) =>
    ( /\ epoch.set
      /\ epoch.v = Sub32(Add32(SecsOf(fetch.from),
                               U32(IF fetch.from[45] >= 128 THEN 1 ELSE 0)),
                         SEC_1970_TO_1900) )

\* A datagram that is not a server reply: the Mode field of byte 0 is not 4
Malformed(d) == Len(d) >= 1 /\ d[1] % 8 # 4

\* C9: reply acceptance. A result is produced only from a datagram of at
\* least 48 bytes that is not malformed; shorter and malformed datagrams do
\* not end the wait.
C9_ReplyAcceptance ==
  ( fetch.done /\ fetch.ret ) =>
    ( Len(fetch.from) >= NTP_PACKET_SIZE /\ ~Malformed(fetch.from) )

\* C10: fetch timeout leaves state untouched. When get_ntp_time has
\* returned and no datagram of at least 48 bytes arrived within the timeout,
\* it returned false, the result variable was not written, and the sync
\* has not adjusted the clock.
C10_FetchTimeout ==
  ( /\ fetch.done
    /\ \A i \in 1..Len(arrived) :
         ~( arrived[i].in_time /\ Len(arrived[i].d) >= NTP_PACKET_SIZE ) )
  => ( /\ ~fetch.ret
       /\ epoch = Unset
       /\ \A i \in 1..Len(sync_log) : sync_log[i][1] # "adjust"
       /\ pc # "fetched" => sync_ret = [set |-> TRUE, v |-> FALSE] )

\* a 47-byte datagram arrived in time, get_ntp_time timed out, the sync has
\* returned false and the clock was not written
C10_Witness ==
  /\ build = "cmd"
  /\ fetch.done /\ ~fetch.ret
  /\ arrived = << [d |-> ShortDg, in_time |-> TRUE] >>
  /\ epoch = Unset
  /\ pc = "loop"
  /\ sync_ret = [set |-> TRUE, v |-> FALSE]
  /\ rtc_time = Unset
  /\ sync_log = << <<"begin", <<97>>, <<98>> >>,
                   <<"send", p_ntp_primary_server, NTP_PORT,
                     send_ntp_packet("cmd")>>,
                   <<"disconnect">> >>

\* ------------------------------------------------------------------------
\* Claims about the sync orchestrator

\* The events of kind k in the log of the current (or the last) sync
Events(k) == {i \in 1..Len(sync_log) : sync_log[i][1] = k}

\* C11: no internal retry or failover. In every sync at most one request
\* is sent, it goes to port 123 of the primary server, and once
\* get_ntp_time has passed its send there is exactly one, however many short
\* datagrams have arrived and however long the wait has lasted.
C11_NoRetry ==
  /\ Cardinality(Events("send")) <= 1
  /\ \A i \in Events("send") :
       /\ sync_log[i][2] = p_ntp_primary_server
       /\ sync_log[i][2] # p_ntp_secondary_server
       /\ sync_log[i][3] = NTP_PORT
  /\ pc \in {"poll", "fetched"} => Cardinality(Events("send")) = 1
  /\ fetch.done => Cardinality(Events("send")) = 1

\* two 47-byte datagrams arrived in time, the fetch waited to its timeout,
\* and the finished sync has sent one request
C11_Witness ==
  /\ pc = "loop"
  /\ fetch.done /\ ~fetch.ret
  /\ arrived = << [d |-> ShortDg, in_time |-> TRUE],
                  [d |-> ShortDg, in_time |-> TRUE] >>
  /\ udp_q = <<>>
  /\ Cardinality(Events("send")) = 1

\* The association of the current (or the last) sync has completed: the
\* status became WL_CONNECTED before or during one of the polls made
Associated == net >= 0 /\ polls >= net

\* C12: release after association. When a sync in which the association
\* succeeded has returned, WiFi.disconnect has been executed exactly once,
\* as the last thing after the request and any clock write, and the station
\* is no longer associated.
C12_ReleaseAfterAssociation ==
  ( sync_ret.set /\ Associated ) =>
    ( /\ Cardinality(Events("disconnect")) = 1
      /\ sync_log[Len(sync_log)] = <<"disconnect">>
      /\ wifi = "idle" )

\* The clock device took the write of the current (or the last) sync
ClockWritten ==
  \E i \in Events("adjust") : sync_log[i][3]

\* C13: overall result of sync. A sync that has returned true had its
\* association succeed, its fetch return an epoch and its clock write
\* succeed; one in which any of the three failed has returned false.
C13_OverallResult ==
  sync_ret.set =>
    ( sync_ret.v <=> ( Associated /\ ~is_wifi_connet_timeout
                       /\ fetch.done /\ fetch.ret /\ ClockWritten ) )

\* The kinds of the events of the current (or the last) sync, in order
Kinds == [i \in 1..Len(sync_log) |-> sync_log[i][1]]

SuccessPath == <<"begin", "send", "adjust", "disconnect">>

\* The association completes no later than the timeout of the build
AssocInTime ==
  /\ net >= 0
  /\ IF build = "cmd"
       THEN net * WIFI_POLL_DELAY_MS <= WIFI_CONNECT_TIMEOUT_MS
       ELSE net * PROMPT_POLL_DELAY_MS <= PROMPT_CONNECT_TIMEOUT_MS

\* C14 as stated: a sync whose association succeeded in time, during whose
\* fetch a datagram of at least 48 bytes arrived within the window, and
\* whose clock device is present, has gone through association start,
\* request, clock write and disconnect, once each in this order, and has
\* returned true.
C14_ArrivalInWindow ==
  ( /\ sync_ret.set /\ AssocInTime /\ hw.rtc
    /\ \E i \in 1..Len(arrived) :
         arrived[i].in_time /\ Len(arrived[i].d) >= NTP_PACKET_SIZE )
  => ( Kinds = SuccessPath /\ sync_ret.v )

\* C14: end-to-end success path. The events of a sync are always a prefix
\* of association start, request, clock write, disconnect (or of the same
\* without the clock write); a sync whose association succeeded in time and
\* whose get_ntp_time parsed a datagram of at least 48 bytes inside the
\* window has gone through all four, once each in this order, and has
\* returned true with the station idle again.
C14_SuccessPath ==
  /\ \/ \E n \in 0..4 : Kinds = SubSeq(SuccessPath, 1, n)
     \/ Kinds = <<"begin", "send", "disconnect">>
  /\ ( sync_ret.set /\ AssocInTime /\ fetch.done /\ fetch.ret )
     => ( /\ Kinds = SuccessPath
          /\ Len(fetch.from) >= NTP_PACKET_SIZE
          /\ sync_ret.v
          /\ wifi = "idle" )

\* the association completed during the last poll before the timeout, a
\* short datagram and then a reply arrived, the clock took the write, and
\* the sync is back in loop() having returned true
C14_Witness ==
  /\ build = "cmd"
  /\ pc = "loop"
  /\ net = WIFI_CONNECT_TIMEOUT_MS \div WIFI_POLL_DELAY_MS /\ polls = net
  /\ arrived = << [d |-> ShortDg, in_time |-> TRUE],
                  [d |-> GoodDg, in_time |-> TRUE] >>
  /\ Kinds = SuccessPath
  /\ rtc_time = [set |-> TRUE, v |-> sync_log[3][2]]
  /\ sync_ret = [set |-> TRUE, v |-> TRUE]
  /\ wifi = "idle"

\* The sync has returned without calling get_ntp_time
GaveUp == sync_ret.set /\ Events("send") = {}

\* C15: association timeout. WiFi.begin is called once per sync; while the
\* sync waits, the time since the association start is the number of polls
\* times the poll interval; a sync that gave up on the association did so
\* with at least 30000 ms elapsed since the association start, returned
\* false, sent no request and did not write the clock.
C15_AssociationTimeout ==
  /\ Cardinality(Events("begin")) <= 1
  /\ InSync => Cardinality(Events("begin")) = 1
  /\ ( pc = "assoc" \/ GaveUp ) =>
       Sub32(millis, wait_time_ms) =
         U32(polls * (IF build = "cmd" THEN WIFI_POLL_DELAY_MS
                      ELSE PROMPT_POLL_DELAY_MS))
  /\ GaveUp =>
       /\ ~Lt32(Sub32(millis, wait_time_ms), U32(WIFI_CONNECT_TIMEOUT_MS))
       /\ ~sync_ret.v
       /\ ~fetch.done
       /\ Events("adjust") = {}

\* ------------------------------------------------------------------------
\* One sync on its own, with the clock advancing and the code making progress

\* loop() has read "sync" with the pair ("a", "b") loaded at boot
InitSync ==
  /\ build \in {"cmd", "prompt"}
  /\ hw = [e2p |-> TRUE, rtc |-> TRUE]
  /\ marker_oob = <<0, 0>>
  /\ eeprom = Image(p_e2p_wifi_config_maker \o marker_oob,
                    PageImage(<<97>>), PageImage(<<98>>))
  /\ script = <<>>
  /\ nets = NetAll
  /\ in_ssid = <<>>
  /\ in_password = <<>>
  /\ call = NoCall
  /\ prev = PrevOf(NoCall)
  /\ saved = {}
  /\ rx = <<>>
  /\ s_line = Str_sync
  /\ e2p_stored_ssid = <<97>>
  /\ e2p_stored_password = <<98>>
  /\ s_is_e2p_wifi_config = TRUE
  /\ s_is_wifi_config_data = TRUE
  /\ s_state = "STATE_IDLE"
  /\ s_tmp_ssid = <<>>
  /\ s_tmp_pass = <<>>
  /\ s_is_enter_request = FALSE
  /\ s_await_param = 0
  /\ s_packet_buf = Rep(0, NTP_PACKET_SIZE)
  /\ out = ""
  /\ pre = Cache(<<97>>, <<98>>, TRUE, TRUE)
  /\ loaded = [ret |-> TRUE, ssid |-> <<97>>, password |-> <<98>>]
  /\ pc = "sync"
  /\ NoSyncYet

NextSync ==
  \/ SyncBegin
  \/ AssocPoll
  \/ AssocConnected
  \/ AssocFailed
  \/ FetchStart
  \/ Arrive
  \/ Tick
  \/ FetchPoll
  \/ FetchTimeout
  \/ SyncFinish
  \/ SyncReturn

\* The code runs on (every enabled step of the sketch is eventually taken)
\* and millis() keeps advancing; datagrams arrive or not
SpecSyncLive ==
  /\ InitSync
  /\ [][NextSync]_vars
  /\ WF_vars(SyncBegin \/ AssocPoll \/ AssocConnected \/ AssocFailed
             \/ FetchStart \/ FetchTimeout \/ SyncFinish \/ SyncReturn)
  /\ WF_vars(FetchPoll)
  /\ WF_vars(Tick)

\* The longest time a sync may take: the association timeout and the fetch
\* timeout, and the step by which the clock is seen to advance
SyncTimeLimit ==
  (IF build = "cmd" THEN WIFI_CONNECT_TIMEOUT_MS ELSE PROMPT_CONNECT_TIMEOUT_MS)
    + NTP_TIMEOUT_MS + TickMs

\* C16: termination of sync. Every sync that is called returns into
\* loop(), whatever the association status does and whatever arrives, and
\* while it runs no more than the association timeout plus the fetch
\* timeout (and one clock step) has passed since its start.
C16_SyncTerminates ==
  /\ [](InSync => ~Lt32(U32(SyncTimeLimit), Sub32(millis, wait_time_ms)))
  /\ (pc = "sync") ~> (pc = "loop" /\ sync_ret.set)

\* the status never became connected, the wait ran to its timeout, and the
\* sync has returned
C16_Witness ==
  /\ pc = "loop" /\ sync_ret.set
  /\ net = -1
  /\ wifi = "connecting"
  /\ Lt32(U32(PROMPT_CONNECT_TIMEOUT_MS - 1), Sub32(millis, wait_time_ms))

\* ------------------------------------------------------------------------
\* Claims about boot and the command loop

\* C17: clock absence at boot is non-fatal. When the EEPROM answers during
\* setup() and the clock device does not, the firmware never restarts.
C17_ClockAbsenceNonFatal ==
  (hw.e2p /\ ~hw.rtc) => pc # "reboot"

\* What e2p_check_wifi_config would return from the EEPROM now, every read
\* succeeding
DeviceNow == e2p_check_wifi_config(eeprom, <<>>, <<>>, <<RdOk, RdOk, RdOk>>)

\* C18: cache equals device. Whenever s_is_wifi_config_data is set, the
\* cached identifier and passphrase are what e2p_check_wifi_config would
\* read from the EEPROM at that moment.
C18_CacheEqualsDevice ==
  s_is_wifi_config_data =>
    /\ DeviceNow.ret
    /\ DeviceNow.ssid = e2p_stored_ssid
    /\ DeviceNow.password = e2p_stored_password

\* loop() is about to read one complete sync line while no credentials
\* are held
SyncLineNoCreds ==
  /\ pc = "loop"
  /\ rx \in {Line_sync, Line_SYNC_crlf}
  /\ s_line = <<>>
  /\ ~s_is_wifi_config_data

\* The line is answered by the hint and by nothing else: no association, no
\* datagram, no write of the clock or of the EEPROM, no flag or cached value
\* changed
HintOnly ==
  /\ out' = "No WiFi Config Data"
  /\ pc' = "loop"
  /\ s_line' = <<>>
  /\ UNCHANGED <<storeVars, syncVars, e2p_stored_ssid, e2p_stored_password,
                 s_is_e2p_wifi_config, s_is_wifi_config_data, s_state,
                 s_tmp_ssid, s_tmp_pass, s_is_enter_request, s_await_param>>

\* C19 as stated: sync without credentials only prints the hint, in
\* every build of the sketch.
C19_HintOnlyEveryBuild ==
  [][SyncLineNoCreds => HintOnly]_vars

\* C19: sync without credentials, in the command build (src/unnamed/
\* part_001). The sync line only prints the hint to use e2p w; it starts no
\* association, sends no datagram, writes neither the clock nor the EEPROM
\* and changes no flag or cached value.
C19_HintOnly ==
  [][(build = "cmd" /\ SyncLineNoCreds) => HintOnly]_vars

\* the hint has been printed by the command build on a device without
\* credentials, and no sync has ever started
C19_Witness ==
  /\ build = "cmd"
  /\ pc = "loop" /\ rx = <<>>
  /\ out = "No WiFi Config Data"
  /\ ~s_is_wifi_config_data
  /\ nsyncs = 0 /\ sync_log = <<>> /\ wifi = "idle"

\* Every line the user sent has been handled; loop() finds nothing to read
\* any more, so what has not happened by now does not happen
InputHandled == pc = "loop" /\ rx = <<>> /\ script = <<>>

\* C20: prompt-driven credential entry (src/rtc_sync_pi.ino). After a sync
\* command without credentials and the two lines entered for the SSID and
\* the password, the pair ends up written to the EEPROM and stored in the
\* cache, s_is_enter_request is lowered and the input state machine is
\* back in STATE_IDLE.
C20_PromptedEntrySaves ==
  (build = "prompt" /\ InputHandled
     /\ s_await_param = ENTER_REQUEST_PARAM_CNT) =>
    /\ <<s_tmp_ssid, s_tmp_pass>> \in saved
    /\ e2p_stored_ssid = s_tmp_ssid
    /\ e2p_stored_password = s_tmp_pass
    /\ s_is_wifi_config_data
    /\ ~s_is_enter_request
    /\ s_state = "STATE_IDLE"

\* ------------------------------------------------------------------------
\* Claims about values, formats and the state kept between commands

\* C21: civil-time offset. In every sync that has returned true, s_rtc.adjust
\* was called exactly once, with (epoch + 32400) mod 2^32 where epoch is the
\* value get_ntp_time stored from the datagram it read, and a clock that
\* took the write holds that value.
C21_CivilTimeOffset ==
  ( sync_ret.set /\ sync_ret.v ) =>
    /\ Cardinality(Events("adjust")) = 1
    /\ epoch = [set |-> TRUE,
                v |-> get_ntp_time_result(build, Take(fetch.from, NTP_PACKET_SIZE))]
    /\ \A i \in Events("adjust") :
         /\ sync_log[i][2] = Add32(epoch.v, U32(32400))
         /\ sync_log[i][3] => rtc_time = [set |-> TRUE, v |-> sync_log[i][2]]

\* the reply carried the second before 1970: the epoch is 2^32 - 1, the
\* sum wraps, and the clock was set to 32399
C21_Witness ==
  /\ pc = "loop"
  /\ sync_ret = [set |-> TRUE, v |-> TRUE]
  /\ fetch.from = WrapDg
  /\ epoch.v = [hi |-> Half - 1, lo |-> Half - 1]
  /\ rtc_time = [set |-> TRUE, v |-> U32(32399)]

\* C22: request format. Every request datagram sent is exactly 48 bytes
\* long, its byte 0 is 0xE3 and its bytes 1..47 are zero, whatever
\* s_packet_buf held before.
C22_RequestFormat ==
  \A i \in Events("send") :
    LET request == sync_log[i][4]
    IN /\ Len(request) = 48
       /\ request[1] = 227
       /\ \A k \in 2..48 : request[k] = 0

\* C23: credentials are never deleted. No step lowers
\* s_is_wifi_config_data once it is set, and while it is set the cached
\* pair changes only to a pair that e2p_save_wifi_config has been called
\* with and returned true for.
C23_NeverDeleted ==
  [][ s_is_wifi_config_data =>
        /\ s_is_wifi_config_data'
        /\ ( <<e2p_stored_ssid', e2p_stored_password'>>
               # <<e2p_stored_ssid, e2p_stored_password>>
             => /\ <<e2p_stored_ssid', e2p_stored_password'>> \in saved'
                /\ call'.fn = "save" ) ]_vars

\* the pair loaded at boot was replaced by a successful e2p w, a later
\* sync failed, every line has been handled, and credentials are still held
C23_Witness ==
  /\ InputHandled
  /\ loaded.ret /\ loaded.ssid = <<97>>
  /\ e2p_stored_ssid # <<97>>
  /\ <<e2p_stored_ssid, e2p_stored_password>> \in saved
  /\ sync_ret = [set |-> TRUE, v |-> FALSE]
  /\ s_is_wifi_config_data

\* Only blank lines: white space, each line ended by a newline
BlankLines(chars) ==
  /\ \A i \in 1..Len(chars) : isspace(chars[i])
  /\ chars = <<>> \/ chars[Len(chars)] = 10

\* The line that the first newline of rx completes, as loop() will see it
NextLine ==
  trim(s_line \o SelectSeq(SubSeq(rx, 1, indexOf(rx, 10, 0)), NotCr))

\* loop() is about to read one completed non-empty line that is none of
\* sync, e2p, e2p <...>, rtc, followed by blank lines at most
UnrecognizedLine ==
  /\ pc = "loop"
  /\ indexOf(rx, 10, 0) # -1
  /\ Len(NextLine) > 0
  /\ ~equalsIgnoreCase(NextLine, Str_sync)
  /\ ~equalsIgnoreCase(NextLine, Str_e2p)
  /\ ~equalsIgnoreCase(NextLine, Str_rtc)
  /\ ~( Len(NextLine) >= 4
        /\ equalsIgnoreCase(substring(NextLine, 0, 4), Str_e2p_sp) )
  /\ BlankLines(SubSeq(rx, indexOf(rx, 10, 0) + 2, Len(rx)))

\* loop() is about to read blank lines only
BlankInput ==
  /\ pc = "loop"
  /\ rx # <<>>
  /\ BlankLines(s_line \o rx)

\* C24: unrecognized input. A completed non-empty line that is none of
\* sync, e2p, e2p <...>, rtc produces the help message and changes no
\* store, cache, flag, clock or network state; a line that is empty after
\* trimming dispatches nothing; after a newline the accumulator is empty
\* (when the line called rtc_and_ntp_sync: once that has returned); and the
\* accumulator never holds a carriage return or a newline.
C24_UnrecognizedInput ==
  /\ [](\A i \in 1..Len(s_line) : s_line[i] # 13 /\ s_line[i] # 10)
  /\ [][ UnrecognizedLine =>
           /\ out' = "Unknown command"
           /\ pc' = "loop" /\ rx' = <<>> /\ s_line' = <<>>
           /\ UNCHANGED <<storeVars, syncVars, e2p_stored_ssid,
                          e2p_stored_password, s_is_e2p_wifi_config,
                          s_is_wifi_config_data, s_is_enter_request,
                          s_state>> ]_vars
  /\ [][ BlankInput =>
           /\ rx' = <<>> /\ s_line' = <<>>
           /\ UNCHANGED <<storeVars, syncVars, build, hw, pc, script, nets,
                          e2p_stored_ssid, e2p_stored_password,
                          s_is_e2p_wifi_config, s_is_wifi_config_data,
                          s_state, s_tmp_ssid, s_tmp_pass, s_is_enter_request,
                          s_await_param, out, pre, loaded>> ]_vars
  /\ [][ ( pc = "loop" /\ rx # <<>> /\ rx[Len(rx)] = 10 /\ pc' = "loop" )
           => s_line' = <<>> ]_vars
  /\ [][ pc = "sync_return" => s_line' = <<>> ]_vars

\* "x\n \n" has been answered by the help message and " \r\n" after it by
\* nothing; the accumulator is empty and nothing has been stored or started
C24_Witness ==
  /\ pc = "loop" /\ rx = <<>>
  /\ script # <<>> /\ Head(script) = Line_w_nopass
  /\ out = "Unknown command"
  /\ s_line = <<>>
  /\ saved = {} /\ nsyncs = 0

\* C25: interface released on every return. Whenever rtc_and_ntp_sync has
\* returned, by the success path, the fetch-failure path or the
\* association-timeout path, the station is neither associated nor still
\* attempting the association.
C25_ReleasedOnEveryReturn ==
  sync_ret.set => ( wifi # "connected" /\ wifi # "connecting" )

\* C26: failed read leaves outputs unchanged. After a call of
\* e2p_check_wifi_config that returned false, the caller's two variables
\* hold what they held before the call ("?" in the calls examined).
C26_FailedReadKeepsOutputs ==
  ( call.fn = "check" /\ ~call.ret ) =>
    ( call.out_ssid = <<63>> /\ call.out_password = <<63>> )

\* Lines that start with "e2p " and are no complete write command: another
\* subcommand, no passphrase, neither identifier nor passphrase, an empty
\* identifier
MalformedE2pLines == {Line_bad_sub, Line_w_nopass, Line_w_only, Line_w_empty}

\* C27: malformed e2p write commands have no effect on the store. Such a
\* line writes no byte of the EEPROM, makes no store call and leaves the
\* cached pair and the presence flags unchanged; e2p_save_wifi_config is
\* only ever called with a non-empty identifier and a non-empty passphrase.
C27_MalformedE2pNoEffect ==
  /\ [](call.fn = "save" => (in_ssid # <<>> /\ in_password # <<>>))
  /\ [][ ( pc = "loop" /\ s_line = <<>> /\ rx \in MalformedE2pLines ) =>
           /\ pc' = "loop" /\ rx' = <<>> /\ s_line' = <<>>
           /\ UNCHANGED <<storeVars, syncVars, e2p_stored_ssid,
                          e2p_stored_password, s_is_e2p_wifi_config,
                          s_is_wifi_config_data>> ]_vars

\* the command build has answered "e2p w  b", whose identifier is empty, by
\* its usage message; nothing was ever saved
C27_Witness ==
  /\ build = "cmd"
  /\ InputHandled
  /\ out = "SSID or Password empty"
  /\ call.fn # "save" /\ saved = {}
  /\ eeprom \in FwImages(marker_oob)

\* The sync started less than 3 s before millis() wraps to zero
StartsBeforeWrap == wait_time_ms = [hi |-> Half - 1, lo |-> Half - 3000]

\* C28: timeouts survive counter wrap-around. For a start soon after boot
\* and for one 3 s before the counter wraps: a sync that gave up on the
\* association did so no earlier than the association timeout of its build,
\* the unsigned difference being the time really waited (polls times the
\* poll interval); a fetch that timed out did so no earlier than
\* NTP_TIMEOUT_MS after its start; and a sync that is waiting when the
\* counter wraps to zero still returns.
C28_TimeoutsSurviveWrap ==
  /\ []( GaveUp =>
           /\ ~Lt32(Sub32(millis, wait_time_ms),
                    U32(IF build = "cmd" THEN WIFI_CONNECT_TIMEOUT_MS
                        ELSE PROMPT_CONNECT_TIMEOUT_MS))
           /\ Sub32(millis, wait_time_ms)
                = U32(polls * (IF build = "cmd" THEN WIFI_POLL_DELAY_MS
                               ELSE PROMPT_POLL_DELAY_MS)) )
  /\ []( (fetch.done /\ ~fetch.ret) =>
           ~Lt32(Sub32(millis, start), U32(NTP_TIMEOUT_MS)) )
  /\ (pc \in {"assoc", "poll"} /\ StartsBeforeWrap /\ millis.hi = 0)
       ~> sync_ret.set

\* a fetch that started 3 s before the wrap has timed out with the counter
\* at 2000, 5000 ms after its start
C28_Witness ==
  /\ StartsBeforeWrap
  /\ start = wait_time_ms
  /\ fetch.done /\ ~fetch.ret
  /\ millis = U32(NTP_TIMEOUT_MS - 3000)
  /\ sync_ret = [set |-> TRUE, v |-> FALSE]

====
